---- MODULE Spec2Model ----
(***************************************************************************)
(* A model of the `parameters` package: the hierarchical ParameterSet (a   *)
(* dict subclass addressed by dotted names), the lazy ParameterReference   *)
(* and the fixed-point loop ParameterSet.replace_references.               *)
(*                                                                         *)
(* Representation.                                                         *)
(*  - A dotted name such as 'a.x' is the sequence of its components,       *)
(*    <<"a", "x">>; name.split('.', 1) takes the first component off.  A   *)
(*    key of a dict is a name too, so a stored key that contains the       *)
(*    separator is a key of length > 1.                                    *)
(*  - A dict (ParameterSet or plain dict) is a function from keys to       *)
(*    values; a value is a record [k, v, sub]: k is the Python type        *)
(*    ("int", "tree" for ParameterSet, "dict" for a plain dict, "ref" for  *)
(*    ParameterReference), v the integer or the identity of the Reference  *)
(*    object, sub the mapping of a tree or dict.                           *)
(*  - ParameterReference objects are mutable and live in `heap`, a         *)
(*    sequence indexed by object identity.                                 *)
(*  - dict iteration order (insertion order) is the position of the key in *)
(*    `keyOrder`.                                                          *)
(* Division is left out of the operator set: the model's scalars are       *)
(* integers.                                                               *)
(* The trees of a ParameterSpace are objects with an identity, see the     *)
(* section on ParameterSpace.                                              *)
(***************************************************************************)
EXTENDS Integers, Sequences, FiniteSets, TLC

VARIABLES
    tree,       \* the ParameterSet the operations act on (the root)
    heap,       \* the ParameterReference objects: id -> [path, ops]
    keyOrder,   \* iteration order of dict keys
    pc,         \* position inside replace_references
    refs,       \* the list find_references() returned for the current pass
    idx,        \* position of the for loop inside refs
    exc,        \* the exception that ended the call, "none" otherwise
    calls,      \* number of replace_references calls begun
    passes,     \* number of passes of the while loop begun in this call
    tree0,      \* the tree handed to the first call
    heap0,      \* the Reference objects at the first call
    after1,     \* the tree the first call returned
    pass0,      \* the tree at the start of the current pass
    ev,         \* the last ParameterReference.evaluate call
    last,       \* the last dotted get / set / add / update / constructor call
    rb,         \* the tree being rebuilt by flat_add from a flat walk
    todo,       \* (name, value) pairs of the flat walk not yet added
    nops,       \* number of set / flat_add / update calls made on the tree
    attrs,      \* the object attributes of the ParameterSet, by name
    nodes,      \* the tree objects of a parameter space: id -> [cls, d]
    gen,        \* the generator a ParameterSpace method returned
    out,        \* the trees the generator yielded, as the caller retains them
    sets,       \* the sets the caller made on the trees of a space: (tree, name)
    dif,        \* two trees and what the difference of each from the other gave
    rng         \* a ParameterRange object and the iterators made over its values

vars == <<tree, heap, keyOrder, pc, refs, idx, exc, calls, passes, tree0, heap0,
          after1, pass0, ev, last, rb, todo, nops, attrs, nodes, gen, out, sets,
          dif, rng>>

-----------------------------------------------------------------------------
(* Bounds *)

MaxLeaf == 2        \* integer leaves of the drawn trees are 2, 4, .., 2*MaxLeaf
MaxCalls == 2       \* replace_references is called at most this many times
MaxPasses == 5      \* passes of the while loop followed within one call
MaxOps == 2         \* set, flat_add and update calls made on one tree
MaxDepth == 3       \* nesting depth of the tree beyond which a call is not followed
Fuel == 12          \* recursion budget of the reference semantics DenoteRef
MaxDraws == 2       \* realize_dists is asked for at most this many samples
MaxSets == 1        \* sets a caller makes on the trees handed to it

-----------------------------------------------------------------------------
(* Values *)

EmptyTree == <<>>
IntV(n)  == [k |-> "int",  v |-> n, sub |-> <<>>]
TreeV(t) == [k |-> "tree", v |-> 0, sub |-> t]
DictV(t) == [k |-> "dict", v |-> 0, sub |-> t]
RefV(id) == [k |-> "ref",  v |-> id, sub |-> <<>>]

Key(c) == <<c>>

\* the keys of d in dict iteration order
OrderedKeys(d) == SelectSeq(keyOrder, LAMBDA key : key \in DOMAIN d)

\* name.split('.', 1)
Split(name) ==
    IF Len(name) = 1 THEN <<name>> ELSE <<SubSeq(name, 1, 1), Tail(name)>>

\* dict.__getitem__(d, key)
DictGet(d, key) ==
    IF key \in DOMAIN d THEN [err |-> "ok", val |-> d[key]]
    ELSE [err |-> "KeyError", val |-> IntV(0)]

\* dict.__setitem__(d, key, value)
DictSet(d, key, value) == (key :> value) @@ d

\* the value None, and a method or other attribute the class provides
NoneV == [k |-> "none", v |-> 0, sub |-> <<>>]
ClassAttrV == [k |-> "class", v |-> 0, sub |-> <<>>]

\* ParameterSet.non_parameter_attributes
NonParameterAttributes ==
    {"_url", "label", "names", "parameters", "flat", "flatten",
     "non_parameter_attributes"}

-----------------------------------------------------------------------------
(* ParameterSet: dotted access *)

RECURSIVE GetItem(_, _), Subscript(_, _)

\* obj[name] for an arbitrary Python object
Subscript(obj, name) ==
    CASE obj.k = "tree" -> GetItem(obj.sub, name)
      [] obj.k = "dict" -> DictGet(obj.sub, name)
      [] OTHER -> [err |-> "TypeError", val |-> IntV(0)]

\* ParameterSet.__getitem__
GetItem(self, name) ==
    LET split == Split(name) IN
    IF Len(split) = 1 THEN DictGet(self, name)
    ELSE LET first == DictGet(self, split[1]) IN
         IF first.err # "ok" THEN first
         ELSE Subscript(first.val, split[2])

RECURSIVE SetItem(_, _, _), SubscriptSet(_, _, _)

\* obj[name] = value for an arbitrary Python object; val is obj afterwards
SubscriptSet(obj, name, value) ==
    CASE obj.k = "tree" ->
            LET r == SetItem(obj.sub, name, value) IN
            [err |-> r.err, val |-> TreeV(r.tree)]
      [] obj.k = "dict" ->
            [err |-> "ok", val |-> DictV(DictSet(obj.sub, name, value))]
      [] OTHER -> [err |-> "TypeError", val |-> obj]

\* ParameterSet.__setitem__; tree is self afterwards
SetItem(self, name, value) ==
    LET split == Split(name) IN
    IF Len(split) = 1 THEN [err |-> "ok", tree |-> DictSet(self, name, value)]
    ELSE LET first == DictGet(self, split[1]) IN
         IF first.err # "ok" THEN [err |-> first.err, tree |-> self]
         ELSE LET r == SubscriptSet(first.val, split[2], value) IN
              IF r.err # "ok" THEN [err |-> r.err, tree |-> self]
              ELSE [err |-> "ok", tree |-> DictSet(self, split[1], r.val)]

\* ParameterSet.__setattr__, self.<name> = value: a name listed in
\* non_parameter_attributes becomes an attribute of the object, any other
\* name a parameter; at holds the object's attributes
SetAttr(self, at, name, value) ==
    IF name \in NonParameterAttributes
    THEN [err |-> "ok", tree |-> self, attrs |-> [at EXCEPT ![name] = value]]
    ELSE LET r == SetItem(self, Key(name), value)
         IN  [err |-> r.err, tree |-> r.tree, attrs |-> at]

RECURSIVE FlatAdd(_, _, _)
\* ParameterSet.flat_add; tree is self afterwards.  A missing parent is
\* created as ParameterSet({}) and stays in self whatever happens next; a
\* parent that is not a ParameterSet has no flat_add.
FlatAdd(self, name, value) ==
    LET split == Split(name) IN
    IF Len(split) = 1 THEN [err |-> "ok", tree |-> DictSet(self, name, value)]
    ELSE LET first == DictGet(self, split[1])
             ps == IF first.err = "KeyError" THEN TreeV(EmptyTree) ELSE first.val
         IN IF ps.k # "tree" THEN [err |-> "AttributeError", tree |-> self]
            ELSE LET r == FlatAdd(ps.sub, split[2], value) IN
                 [err |-> r.err, tree |-> DictSet(self, split[1], TreeV(r.tree))]

RECURSIVE UpdatePairs(_, _, _)
\* for (k, v) in E: self[k] = v, from pair i on; the pairs set before a
\* failure stay set
UpdatePairs(self, E, i) ==
    IF i > Len(E) THEN [err |-> "ok", tree |-> self]
    ELSE LET r == SetItem(self, E[i].k, E[i].v) IN
         IF r.err # "ok" THEN r ELSE UpdatePairs(r.tree, E, i + 1)

\* ParameterSet.update(E, **kwargs).  E is a list of pairs or a dict; a
\* dict has no has_key, so that its keys are what the loop unpacks into
\* (k, v): that fails for every key that is not two characters long.
Update(self, E, kwargs) ==
    LET first == IF E.dict /\ E.items # <<>>
                 THEN [err |-> "ValueError", tree |-> self]
                 ELSE UpdatePairs(self, E.items, 1)
        keys == OrderedKeys(kwargs)
    IN IF first.err # "ok" THEN first
       ELSE UpdatePairs(first.tree,
                        [i \in 1..Len(keys) |-> [k |-> keys[i], v |-> kwargs[keys[i]]]],
                        1)

\* ParameterSet.invalid_names
InvalidNames == {Key("parameters"), Key("names")}

\* ParameterSet.check_validity(k): TRUE when it returns, FALSE when it raises
CheckValidity(k) == k \notin InvalidNames

RECURSIVE ParameterSetInit(_), InitItems(_, _, _, _), Walk(_), WalkItems(_, _, _)

\* the for loop of walk(d, label) from key i on; d is mutated in place
WalkItems(d, keys, i) ==
    IF i > Len(keys) THEN [err |-> "ok", tree |-> d]
    ELSE LET k == keys[i]
             v == d[k]
         IN IF ~CheckValidity(k) THEN [err |-> "Exception", tree |-> d]
            ELSE IF v.k = "dict"
                 THEN LET w == Walk(v.sub) IN
                      IF w.err # "ok" THEN [err |-> w.err, tree |-> d]
                      ELSE WalkItems(DictSet(d, k, TreeV(w.tree)), keys, i + 1)
                 ELSE WalkItems(d, keys, i + 1)

\* walk(d, label) of __init__: dicts replaced, then ParameterSet(d, label)
Walk(d) ==
    LET w == WalkItems(d, OrderedKeys(d), 1) IN
    IF w.err # "ok" THEN w ELSE ParameterSetInit(w.tree)

\* the for loop of __init__ over initialiser.items() from key i on
InitItems(self, initialiser, keys, i) ==
    IF i > Len(keys) THEN [err |-> "ok", tree |-> self]
    ELSE LET k == keys[i]
             v == initialiser[k]
             w == IF v.k = "dict" THEN Walk(v.sub)
                  ELSE [err |-> "ok", tree |-> EmptyTree]
             value == IF v.k = "dict" THEN TreeV(w.tree) ELSE v
         IN IF ~CheckValidity(k) THEN [err |-> "Exception", tree |-> self]
            ELSE IF w.err # "ok" THEN [err |-> w.err, tree |-> self]
            ELSE LET r == SetItem(self, k, value) IN
                 IF r.err # "ok" THEN r
                 ELSE InitItems(r.tree, initialiser, keys, i + 1)

\* ParameterSet.__init__ on a dict initialiser
ParameterSetInit(initialiser) ==
    InitItems(EmptyTree, initialiser, OrderedKeys(initialiser), 1)

RECURSIVE NestedDictWalk(_), NestedDictWalkItems(_, _, _)

RECURSIVE NestedDictWalkUnjoined(_, _, _)
\* _nesteddictwalk yielding the nested key without the key of the parent
NestedDictWalkUnjoined(d, keys, i) ==
    IF i > Len(keys) THEN <<>>
    ELSE LET key1 == keys[i]
             value1 == d[key1]
             sub == IF value1.k \in {"tree", "dict"}
                    THEN NestedDictWalk(value1.sub) ELSE <<>>
             l == IF value1.k \in {"tree", "dict"}
                  THEN [j \in 1..Len(sub) |->
                          [name |-> sub[j].name, value |-> sub[j].value]]
                  ELSE <<[name |-> key1, value |-> value1]>>
         IN l \o NestedDictWalkUnjoined(d, keys, i + 1)

\* the for loop of _nesteddictwalk from key i on: the pairs it yields
NestedDictWalkItems(d, keys, i) ==
    IF i > Len(keys) THEN <<>>
    ELSE LET key1 == keys[i]
             value1 == d[key1]
             sub == IF value1.k \in {"tree", "dict"}
                    THEN NestedDictWalk(value1.sub) ELSE <<>>
             l == IF value1.k \in {"tree", "dict"}
                  THEN [j \in 1..Len(sub) |->
                          [name |-> key1 \o sub[j].name, value |-> sub[j].value]]
                  ELSE <<[name |-> key1, value |-> value1]>>
         IN l \o NestedDictWalkItems(d, keys, i + 1)

\* _nesteddictwalk(d), which ParameterSet.flat returns
NestedDictWalk(d) == NestedDictWalkItems(d, OrderedKeys(d), 1)

-----------------------------------------------------------------------------
(* ParameterReference *)

RECURSIVE Pow(_, _)
Pow(x, n) == IF n <= 0 THEN 1 ELSE x * Pow(x, n - 1)

\* the operator module's function applied to two integers; "rsub" is
\* _reverse(operator.sub)
Arith(f, x, y) ==
    CASE f = "add" -> x + y
      [] f = "sub" -> x - y
      [] f = "rsub" -> y - x
      [] f = "mul" -> x * y
      [] f = "pow" -> Pow(x, y)

\* op(self, val) of _lazy_operation: self.operations.append((f, val)); return self
LazyOperation(h, self, f, val) ==
    [err |-> "ok", val |-> RefV(self),
     heap |-> [h EXCEPT ![self].ops =
                  Append(@, [f |-> f, r |-> (val.k = "ref"), a |-> val.v])]]

\* f(x, arg) as Python dispatches it: int arithmetic, or the (reflected)
\* lazy operation of whichever operand is a ParameterReference
BinaryOp(h, f, x, arg) ==
    CASE x.k = "ref" /\ f # "rsub" -> LazyOperation(h, x.v, f, arg)
      [] x.k = "ref" /\ f = "rsub" /\ arg.k = "ref" ->
            LazyOperation(h, arg.v, "sub", x)
      [] x.k = "ref" /\ f = "rsub" /\ arg.k # "ref" ->
            LazyOperation(h, x.v, "rsub", arg)
      [] x.k = "int" /\ arg.k = "int" ->
            [err |-> "ok", val |-> IntV(Arith(f, x.v, arg.v)), heap |-> h]
      [] x.k = "int" /\ arg.k = "ref" /\ f \in {"add", "mul"} ->
            LazyOperation(h, arg.v, f, x)
      [] x.k = "int" /\ arg.k = "ref" /\ f = "sub" ->
            LazyOperation(h, arg.v, "rsub", x)
      [] x.k = "int" /\ arg.k = "ref" /\ f = "rsub" ->
            LazyOperation(h, arg.v, "sub", x)
      [] OTHER -> [err |-> "TypeError", val |-> x, heap |-> h]

RECURSIVE ApplyOperations(_, _, _, _)
\* ParameterReference._apply_operations, from operation i on
ApplyOperations(h, self, i, x) ==
    IF i > Len(h[self].ops) THEN [err |-> "ok", val |-> x, heap |-> h]
    ELSE LET op == h[self].ops[i]
             arg == IF op.r THEN RefV(op.a) ELSE IntV(op.a)
             r == BinaryOp(h, op.f, x, arg)
         IN IF r.err # "ok" THEN r
            ELSE ApplyOperations(r.heap, self, i + 1, r.val)

RECURSIVE RefCopy(_, _), CopyOps(_, _, _, _)
\* ParameterReference.copy: a new object, Reference operands copied too
RefCopy(h, self) ==
    LET pr == Len(h) + 1
        h1 == Append(h, [path |-> h[self].path, ops |-> <<>>])
    IN [heap |-> CopyOps(h1, h[self].ops, 1, pr), id |-> pr]

CopyOps(h, ops, i, pr) ==
    IF i > Len(ops) THEN h
    ELSE IF ops[i].r
         THEN LET c == RefCopy(h, ops[i].a) IN
              CopyOps([c.heap EXCEPT ![pr].ops =
                          Append(@, [ops[i] EXCEPT !.a = c.id])], ops, i + 1, pr)
         ELSE CopyOps([h EXCEPT ![pr].ops = Append(@, ops[i])], ops, i + 1, pr)

RECURSIVE TreeCopy(_, _), TreeCopyKeys(_, _, _, _, _)
\* the for loop of tree_copy from key i on, tmp being the copy so far
TreeCopyKeys(h, self, keys, i, tmp) ==
    IF i > Len(keys) THEN [heap |-> h, tree |-> tmp]
    ELSE LET key == keys[i]
             value == GetItem(self, key).val
         IN CASE value.k = "tree" ->
                   LET c == TreeCopy(h, value.sub) IN
                   TreeCopyKeys(c.heap, self, keys, i + 1,
                                SetItem(tmp, key, TreeV(c.tree)).tree)
              [] value.k = "ref" ->
                   LET c == RefCopy(h, value.v) IN
                   TreeCopyKeys(c.heap, self, keys, i + 1,
                                SetItem(tmp, key, RefV(c.id)).tree)
              [] OTHER ->
                   TreeCopyKeys(h, self, keys, i + 1,
                                SetItem(tmp, key, value).tree)

\* ParameterSet.tree_copy
TreeCopy(h, self) == TreeCopyKeys(h, self, OrderedKeys(self), 1, EmptyTree)

\* evaluate without the test that a sub-tree target has no operations
EvaluateAnyChain(h, parameter_set, self) ==
    LET got == GetItem(parameter_set, h[self].path) IN
    IF got.err # "ok" THEN [err |-> got.err, val |-> RefV(self), heap |-> h]
    ELSE LET ref_value == got.val IN
         CASE ref_value.k = "tree" ->
                 LET c == TreeCopy(h, ref_value.sub) IN
                 [err |-> "ok", val |-> TreeV(c.tree), heap |-> c.heap]
           [] ref_value.k = "ref" ->
                 [err |-> "ok", val |-> RefV(self), heap |-> h]
           [] OTHER -> ApplyOperations(h, self, 1, ref_value)

\* ParameterReference.evaluate
Evaluate(h, parameter_set, self) ==
    LET got == GetItem(parameter_set, h[self].path) IN
    IF got.err # "ok" THEN [err |-> got.err, val |-> RefV(self), heap |-> h]
    ELSE LET ref_value == got.val IN
         CASE ref_value.k = "tree" ->
                 IF h[self].ops = <<>>
                 THEN LET c == TreeCopy(h, ref_value.sub) IN
                      [err |-> "ok", val |-> TreeV(c.tree), heap |-> c.heap]
                 ELSE [err |-> "ValueError", val |-> RefV(self), heap |-> h]
           [] ref_value.k = "ref" ->
                 [err |-> "ok", val |-> RefV(self), heap |-> h]
           [] OTHER -> ApplyOperations(h, self, 1, ref_value)

-----------------------------------------------------------------------------
(* ParameterSet.find_references / replace_references *)

RECURSIVE FindReferences(_, _), FindReferencesKeys(_, _, _, _)

RECURSIVE FindReferencesFlat(_, _, _, _)
\* find_references without the descent into nested ParameterSets
FindReferencesFlat(self, at, keys, i) ==
    IF i > Len(keys) THEN <<>>
    ELSE LET k == keys[i]
             v == self[k]
             l == IF v.k = "ref" THEN <<[s |-> at, k |-> k, v |-> v.v]>> ELSE <<>>
         IN l \o FindReferencesFlat(self, at, keys, i + 1)

\* the for loop of find_references from key i on; `at` is the path of keys
\* that leads from the root to the object self
FindReferencesKeys(self, at, keys, i) ==
    IF i > Len(keys) THEN <<>>
    ELSE LET k == keys[i]
             v == self[k]
             l == CASE v.k = "ref" -> <<[s |-> at, k |-> k, v |-> v.v]>>
                    [] v.k = "tree" -> FindReferences(v.sub, Append(at, k))
                    [] OTHER -> <<>>
         IN l \o FindReferencesKeys(self, at, keys, i + 1)

FindReferences(self, at) == FindReferencesKeys(self, at, OrderedKeys(self), 1)

RECURSIVE OwnerSet(_, _, _, _)
\* s[k] = value, s being the ParameterSet that path `at` leads to from root
OwnerSet(root, at, k, value) ==
    IF at = <<>> THEN SetItem(root, k, value).tree
    ELSE DictSet(root, Head(at),
                 TreeV(OwnerSet(root[Head(at)].sub, Tail(at), k, value)))

-----------------------------------------------------------------------------
(* The trees replace_references is run on *)

Ref(path, ops) == [path |-> path, ops |-> ops]
Op(f, n) == [f |-> f, r |-> FALSE, a |-> n]       \* (f, n): a scalar operand
OpR(f, id) == [f |-> f, r |-> TRUE, a |-> id]     \* (f, <Reference id>)

\* The Reference a key may hold; s is the identity of the object, s + 1 that
\* of the Reference used as its operand.
RefShapes(s) ==
    { Ref(<<"a">>, <<>>),
      Ref(<<"b">>, <<>>),
      Ref(<<"b">>, <<Op("add", 1)>>),
      Ref(<<"a", "x">>, <<>>),
      Ref(<<"b">>, <<Op("rsub", 7), Op("mul", 3), Op("pow", 2)>>),
      Ref(<<"a">>, <<OpR("sub", s + 1), Op("mul", 3)>>),
      Ref(<<"z">>, <<>>) }

\* What a top-level key may hold: val is the value, obj the Reference object s
Choices(s) ==
    {[val |-> IntV(2 * n), obj |-> Ref(<<"a">>, <<>>)] : n \in 1..MaxLeaf}
    \cup {[val |-> TreeV(Key("x") :> IntV(1)), obj |-> Ref(<<"a">>, <<>>)],
          [val |-> TreeV(Key("x") :> RefV(s)), obj |-> Ref(<<"b">>, <<>>)]}
    \cup {[val |-> RefV(s), obj |-> shape] : shape \in RefShapes(s)}

\* {a: .., b: .., c: ..}, every Reference a distinct object
DrawnInputs ==
    {[tree |-> (Key("a") :> ca.val) @@ (Key("b") :> cb.val) @@ (Key("c") :> cc.val),
      heap |-> <<ca.obj, Ref(<<"b">>, <<>>), cb.obj, Ref(<<"b">>, <<>>),
                 cc.obj, Ref(<<"b">>, <<>>)>>] :
        ca \in Choices(1), cb \in Choices(3), cc \in Choices(5)}

\* {p1: 2, p2: 4, p3: ref(p1)+ref(p2)+1, p4: ref(p3)+1}, with a, b, c, d for
\* p1..p4 (test_replace_references_with_operations)
ExampleInput ==
    [tree |-> (Key("a") :> IntV(2)) @@ (Key("b") :> IntV(4))
              @@ (Key("c") :> RefV(1)) @@ (Key("d") :> RefV(3)),
     heap |-> <<Ref(<<"a">>, <<OpR("add", 2), Op("add", 1)>>),
                Ref(<<"b">>, <<>>),
                Ref(<<"c">>, <<Op("add", 1)>>)>>]

\* r = ref('a') + ref('b'); {a: 2, b: 4, c: r, d: r}: one object, two keys
SharedKeyInput ==
    [tree |-> (Key("a") :> IntV(2)) @@ (Key("b") :> IntV(4))
              @@ (Key("c") :> RefV(1)) @@ (Key("d") :> RefV(1)),
     heap |-> <<Ref(<<"a">>, <<OpR("add", 2)>>), Ref(<<"b">>, <<>>)>>]

\* r = ref('a'); {a: 2, b: 4, c: ref('b') + r, d: ref('b') * r}
SharedOperandInput ==
    [tree |-> (Key("a") :> IntV(2)) @@ (Key("b") :> IntV(4))
              @@ (Key("c") :> RefV(1)) @@ (Key("d") :> RefV(2)),
     heap |-> <<Ref(<<"b">>, <<OpR("add", 3)>>),
                Ref(<<"b">>, <<OpR("mul", 3)>>),
                Ref(<<"a">>, <<>>)>>]

\* {a: 2, b: 4, c: ref('a') ** ref('b'), d: {x: ref('c')}}
PowInput ==
    [tree |-> (Key("a") :> IntV(2)) @@ (Key("b") :> IntV(4))
              @@ (Key("c") :> RefV(1))
              @@ (Key("d") :> TreeV(Key("x") :> RefV(3))),
     heap |-> <<Ref(<<"a">>, <<OpR("pow", 2)>>), Ref(<<"b">>, <<>>),
                Ref(<<"c">>, <<>>)>>]

RefInputs ==
    DrawnInputs \cup {ExampleInput, SharedKeyInput, SharedOperandInput, PowInput}

AllKeys == <<Key("a"), Key("b"), Key("c"), Key("d"), Key("x"), Key("y"),
             Key("names"), Key("parameters"), Key("label"), Key("keys"),
             <<"a", "x">>, <<"x", "y">>>>

RECURSIVE Reverse(_)
Reverse(s) == IF s = <<>> THEN <<>> ELSE Append(Reverse(Tail(s)), Head(s))

\* the insertion orders the dicts are drawn with
Orders == {AllKeys, Reverse(AllKeys)}

NoCall == [called |-> FALSE, id |-> 0, pre |-> EmptyTree, hpre |-> <<>>,
           err |-> "none", val |-> IntV(0), hpost |-> <<>>]

NoOp == [op |-> "none", name |-> <<>>, err |-> "none", val |-> IntV(0),
         arg |-> IntV(0), pre |-> EmptyTree]

\* the object attributes once __init__ has returned: _url and label are None,
\* names and parameters are bound methods, the others are the class's own
InitAttrs ==
    [a \in NonParameterAttributes |->
        IF a \in {"_url", "label"} THEN NoneV ELSE ClassAttrV]

\* no difference has been taken
NoDiff ==
    [n |-> 0, A |-> EmptyTree, B |-> EmptyTree,
     ab |-> [err |-> "none", r1 |-> EmptyTree, r2 |-> EmptyTree],
     ba |-> [err |-> "none", r1 |-> EmptyTree, r2 |-> EmptyTree]]

\* no ParameterRange has been constructed
NoRange ==
    [made |-> FALSE, err |-> "none", source |-> [kind |-> "none", items |-> <<>>],
     shuffle |-> FALSE, values |-> <<>>, iters |-> <<>>, cur |-> 0,
     value |-> 0, pos |-> 0, op |-> "none", res |-> "none"]

\* no generator has been created
NoGen ==
    [kind |-> "none", copy |-> FALSE, keys |-> <<>>, frames |-> <<>>,
     base |-> FALSE, n |-> 0, rngs |-> <<>>, ndraws |-> 0]

RECURSIVE DeeperThan(_, _)
\* t nests dicts more than n levels deep (a self-referring sub-tree doubles
\* its depth in every pass)
DeeperThan(t, n) ==
    \E key \in DOMAIN t : n = 0 \/ DeeperThan(t[key].sub, n - 1)

-----------------------------------------------------------------------------
(* replace_references, one step of its loops at a time *)

InitRefs ==
    /\ \E in \in RefInputs :
          /\ tree = in.tree
          /\ heap = in.heap
          /\ tree0 = in.tree
          /\ heap0 = in.heap
          /\ pass0 = in.tree
    /\ keyOrder \in Orders
    /\ pc = "scan"
    /\ refs = <<>>
    /\ idx = 0
    /\ exc = "none"
    /\ calls = 1
    /\ passes = 0
    /\ after1 = EmptyTree
    /\ ev = NoCall
    /\ last = NoOp
    /\ rb = EmptyTree
    /\ todo = <<>>
    /\ nops = 0
    /\ attrs = InitAttrs
    /\ nodes = <<>>
    /\ gen = NoGen
    /\ out = <<>>
    /\ sets = <<>>
    /\ dif = NoDiff
    /\ rng = NoRange

\* refs = self.find_references(); if len(refs) == 0: break
FindRefs ==
    /\ pc = "scan"
    /\ passes < MaxPasses
    /\ ~DeeperThan(tree, MaxDepth)
    /\ passes' = passes + 1
    /\ refs' = FindReferences(tree, <<>>)
    /\ pc' = IF Len(refs') = 0 THEN "done" ELSE "eval"
    /\ idx' = 1
    /\ pass0' = tree
    /\ UNCHANGED <<tree, heap, keyOrder, exc, calls, tree0, heap0, after1, ev,
                   last, rb, todo, nops, attrs, nodes, gen, out,
                   sets, dif, rng>>

\* the for loop without the enclosing while: the call returns after one pass
EvalRefOnePass ==
    /\ pc = "eval"
    /\ LET t == refs[idx]
           r == Evaluate(heap, tree, t.v)
       IN /\ ev' = [called |-> TRUE, id |-> t.v, pre |-> tree, hpre |-> heap,
                    err |-> r.err, val |-> r.val, hpost |-> r.heap]
          /\ IF r.err # "ok"
             THEN /\ pc' = "raised"
                  /\ exc' = r.err
                  /\ UNCHANGED <<tree, heap, idx>>
             ELSE /\ tree' = OwnerSet(tree, t.s, t.k, r.val)
                  /\ heap' = r.heap
                  /\ idx' = idx + 1
                  /\ pc' = IF idx = Len(refs) THEN "done" ELSE "eval"
                  /\ exc' = exc
    /\ UNCHANGED <<keyOrder, refs, calls, passes, tree0, heap0, after1, pass0,
                   last, rb, todo, nops, attrs, nodes, gen, out,
                   sets, dif, rng>>

\* one iteration of: for s, k, v in refs: s[k] = v.evaluate(self)
EvalRef ==
    /\ pc = "eval"
    /\ LET t == refs[idx]
           r == Evaluate(heap, tree, t.v)
       IN /\ ev' = [called |-> TRUE, id |-> t.v, pre |-> tree, hpre |-> heap,
                    err |-> r.err, val |-> r.val, hpost |-> r.heap]
          /\ IF r.err # "ok"
             THEN /\ pc' = "raised"
                  /\ exc' = r.err
                  /\ UNCHANGED <<tree, heap, idx>>
             ELSE /\ tree' = OwnerSet(tree, t.s, t.k, r.val)
                  /\ heap' = r.heap
                  /\ idx' = idx + 1
                  /\ pc' = IF idx = Len(refs) THEN "scan" ELSE "eval"
                  /\ exc' = exc
    /\ UNCHANGED <<keyOrder, refs, calls, passes, tree0, heap0, after1, pass0,
                   last, rb, todo, nops, attrs, nodes, gen, out,
                   sets, dif, rng>>

\* the caller runs replace_references() on the same tree once more
CallAgain ==
    /\ pc = "done"
    /\ calls < MaxCalls
    /\ calls' = calls + 1
    /\ after1' = tree
    /\ pc' = "scan"
    /\ passes' = 0
    /\ UNCHANGED <<tree, heap, keyOrder, refs, idx, exc, tree0, heap0, pass0,
                   ev, last, rb, todo, nops, attrs, nodes, gen, out,
                   sets, dif, rng>>

NextRefs == FindRefs \/ EvalRef \/ CallAgain

SpecRefs == InitRefs /\ [][NextRefs]_vars /\ WF_vars(NextRefs)

-----------------------------------------------------------------------------
(* A ParameterSet under construction, dotted get and set, flat_add, update  *)
(* and the rebuilding of a tree from its flat walk                          *)

\* the dotted names the calls are made with
TreeNames ==
    {<<"a">>, <<"b">>, <<"a", "x">>, <<"a", "x", "y">>, <<"b", "x">>,
     <<"names">>}

\* the attribute names the attribute-style set is made with
AttrNames == {"a", "label", "names"}

\* the values the calls store: numbers, ParameterSets and plain dicts
TreeValues ==
    {IntV(n) : n \in 1..MaxLeaf}
    \cup {TreeV(EmptyTree), TreeV(Key("x") :> IntV(1)),
          DictV(Key("y") :> IntV(1)), DictV(<<"x", "y">> :> IntV(1))}

\* the dicts the constructor is called with
Initialisers ==
    { EmptyTree,
      Key("a") :> IntV(1),
      (Key("a") :> DictV(Key("x") :> IntV(1))) @@ (Key("b") :> IntV(2)),
      (Key("a") :> DictV(EmptyTree))
          @@ (Key("b") :> DictV(Key("x") :> DictV(Key("y") :> IntV(1)))),
      (Key("a") :> TreeV(Key("x") :> IntV(1)))
          @@ (Key("b") :> DictV(Key("x") :> IntV(2))),
      (Key("a") :> DictV(EmptyTree)) @@ (<<"a", "x">> :> IntV(1)),
      (Key("a") :> IntV(1)) @@ (<<"a", "x">> :> IntV(2)),
      Key("names") :> IntV(1),
      Key("label") :> IntV(1),
      Key("a") :> DictV(Key("parameters") :> IntV(1)) }

Pair(k, v) == [k |-> k, v |-> v]

\* the first argument of update: a list of (k, v) pairs, or a dict
UpdateArgs ==
    { [dict |-> FALSE, items |-> <<>>],
      [dict |-> FALSE, items |-> <<Pair(Key("a"), IntV(1))>>],
      [dict |-> FALSE, items |-> <<Pair(Key("b"), DictV(Key("y") :> IntV(1))),
                                   Pair(<<"a", "x">>, IntV(2))>>],
      [dict |-> TRUE, items |-> <<>>],
      [dict |-> TRUE, items |-> <<Pair(Key("b"), IntV(2))>>] }

\* the keyword arguments of update
UpdateKwargs == {EmptyTree, Key("b") :> IntV(1)}

InitTree ==
    /\ tree = EmptyTree
    /\ keyOrder \in Orders
    /\ pc = "idle"
    /\ last = NoOp
    /\ rb = EmptyTree
    /\ todo = <<>>
    /\ nops = 0
    /\ exc = "none"
    /\ heap = <<>>
    /\ refs = <<>>
    /\ idx = 0
    /\ calls = 0
    /\ passes = 0
    /\ tree0 = EmptyTree
    /\ heap0 = <<>>
    /\ after1 = EmptyTree
    /\ pass0 = EmptyTree
    /\ ev = NoCall
    /\ attrs = InitAttrs
    /\ nodes = <<>>
    /\ gen = NoGen
    /\ out = <<>>
    /\ sets = <<>>
    /\ dif = NoDiff
    /\ rng = NoRange

\* ps = ParameterSet(initialiser), before any other call is made on ps; ps
\* stays what it was when the constructor raises
NewParameterSet ==
    /\ pc = "idle"
    /\ nops = 0
    /\ \E initialiser \in Initialisers :
          LET r == ParameterSetInit(initialiser) IN
          /\ tree' = IF r.err = "ok" THEN r.tree ELSE tree
          /\ attrs' = IF r.err = "ok" THEN InitAttrs ELSE attrs
          /\ last' = [op |-> "init", name |-> <<>>, err |-> r.err,
                      val |-> IntV(0), arg |-> DictV(initialiser), pre |-> tree]
    /\ UNCHANGED <<heap, keyOrder, pc, refs, idx, exc, calls, passes, tree0,
                   heap0, after1, pass0, ev, rb, todo, nops, nodes, gen, out,
                   sets, dif, rng>>

\* ps[name]
GetCall ==
    /\ pc = "idle"
    /\ \E name \in TreeNames :
          LET r == GetItem(tree, name) IN
          last' = [op |-> "get", name |-> name, err |-> r.err, val |-> r.val,
                   arg |-> IntV(0), pre |-> tree]
    /\ UNCHANGED <<tree, heap, keyOrder, pc, refs, idx, exc, calls, passes,
                   tree0, heap0, after1, pass0, ev, rb, todo, nops, attrs, nodes, gen, out,
                   sets, dif, rng>>

\* ps[name] = value
SetCall ==
    /\ pc = "idle"
    /\ nops < MaxOps
    /\ nops' = nops + 1
    /\ \E name \in TreeNames, value \in TreeValues :
          LET r == SetItem(tree, name, value) IN
          /\ tree' = r.tree
          /\ last' = [op |-> "set", name |-> name, err |-> r.err,
                      val |-> IntV(0), arg |-> value, pre |-> tree]
    /\ UNCHANGED <<heap, keyOrder, pc, refs, idx, exc, calls, passes, tree0,
                   heap0, after1, pass0, ev, rb, todo, attrs, nodes, gen, out,
                   sets, dif, rng>>

\* ps.<name> = value, the attribute-style set
SetAttrCall ==
    /\ pc = "idle"
    /\ nops < MaxOps
    /\ nops' = nops + 1
    /\ \E name \in AttrNames, value \in {IntV(1)} :
          LET r == SetAttr(tree, attrs, name, value) IN
          /\ tree' = r.tree
          /\ attrs' = r.attrs
          /\ last' = [op |-> "setattr", name |-> Key(name), err |-> r.err,
                      val |-> IntV(0), arg |-> value, pre |-> tree]
    /\ UNCHANGED <<heap, keyOrder, pc, refs, idx, exc, calls, passes, tree0,
                   heap0, after1, pass0, ev, rb, todo, nodes, gen, out,
                   sets, dif, rng>>

\* ps.flat_add(name, value)
FlatAddCall ==
    /\ pc = "idle"
    /\ nops < MaxOps
    /\ nops' = nops + 1
    /\ \E name \in TreeNames, value \in TreeValues :
          LET r == FlatAdd(tree, name, value) IN
          /\ tree' = r.tree
          /\ last' = [op |-> "flat_add", name |-> name, err |-> r.err,
                      val |-> IntV(0), arg |-> value, pre |-> tree]
    /\ UNCHANGED <<heap, keyOrder, pc, refs, idx, exc, calls, passes, tree0,
                   heap0, after1, pass0, ev, rb, todo, attrs, nodes, gen, out,
                   sets, dif, rng>>

\* ps.update(E, **kwargs)
UpdateCall ==
    /\ pc = "idle"
    /\ nops < MaxOps
    /\ nops' = nops + 1
    /\ \E E \in UpdateArgs, kwargs \in UpdateKwargs :
          LET r == Update(tree, E, kwargs) IN
          /\ tree' = r.tree
          /\ last' = [op |-> "update", name |-> <<>>, err |-> r.err,
                      val |-> IntV(0), arg |-> DictV(kwargs), pre |-> tree]
    /\ UNCHANGED <<heap, keyOrder, pc, refs, idx, exc, calls, passes, tree0,
                   heap0, after1, pass0, ev, rb, todo, attrs, nodes, gen, out,
                   sets, dif, rng>>

\* ps2 = ParameterSet({}) and the pairs of ps.flat() that are to be added
FlatCall ==
    /\ pc = "idle"
    /\ pc' = "rebuild"
    /\ rb' = EmptyTree
    /\ todo' = NestedDictWalk(tree)
    /\ last' = [NoOp EXCEPT !.op = "flat", !.pre = tree]
    /\ UNCHANGED <<tree, heap, keyOrder, refs, idx, exc, calls, passes, tree0,
                   heap0, after1, pass0, ev, nops, attrs, nodes, gen, out,
                   sets, dif, rng>>

\* ps2.flat_add(k, v) for one of the pairs left, taken in any order
RebuildAdd ==
    /\ pc = "rebuild"
    /\ \E i \in 1..Len(todo) :
          LET r == FlatAdd(rb, todo[i].name, todo[i].value) IN
          /\ rb' = r.tree
          /\ todo' = SubSeq(todo, 1, i - 1) \o SubSeq(todo, i + 1, Len(todo))
          /\ pc' = IF r.err = "ok" THEN "rebuild" ELSE "raised"
          /\ exc' = IF r.err = "ok" THEN exc ELSE r.err
    /\ UNCHANGED <<tree, heap, keyOrder, refs, idx, calls, passes, tree0,
                   heap0, after1, pass0, ev, last, nops, attrs, nodes, gen, out,
                   sets, dif, rng>>

NextTree ==
    \/ NewParameterSet
    \/ GetCall
    \/ SetCall
    \/ SetAttrCall
    \/ FlatAddCall
    \/ UpdateCall
    \/ FlatCall
    \/ RebuildAdd

SpecTree == InitTree /\ [][NextTree]_vars

-----------------------------------------------------------------------------
(* ParameterSpace.  The trees of a space are objects: `nodes` holds them   *)
(* by identity, a ParameterSet nested in another is the value NodeV(id),   *)
(* and a ParameterRange is the value RangeV(r), r the identity of the      *)
(* Range object in RangeObjects.  The space the methods are called on is   *)
(* the object Self.                                                        *)

NodeV(id) == [k |-> "node", v |-> id, sub |-> <<>>]
RangeV(r) == [k |-> "range", v |-> r, sub |-> <<>>]
TupleV(t) == [k |-> "tuple", v |-> 0, sub |-> t]
ListV(items) == [k |-> "list", v |-> 0, sub |-> items]
\* a plain dict that a tree holds, the object id of `nodes` (of class dict)
PlainDictV(id) == [k |-> "pdict", v |-> id, sub |-> <<>>]

\* ParameterRange._values of the Range objects the spaces are drawn with:
\* 1, .., MaxLeaf; 1, .., MaxLeaf + 1; and a list that holds a value twice
RangeObjects ==
    << [i \in 1..MaxLeaf |-> i], [i \in 1..(MaxLeaf + 1) |-> i], <<1, 1, 2>> >>

Self == 1

RECURSIVE NodeGetItem(_, _, _)
\* ParameterSet.__getitem__ on the tree object self
NodeGetItem(h, self, name) ==
    LET split == Split(name) IN
    IF Len(split) = 1 THEN DictGet(h[self].d, name)
    ELSE LET first == DictGet(h[self].d, split[1]) IN
         IF first.err # "ok" THEN first
         ELSE IF first.val.k = "node"
              THEN NodeGetItem(h, first.val.v, split[2])
              ELSE IF first.val.k = "pdict"
              THEN DictGet(h[first.val.v].d, split[2])
              ELSE [err |-> "TypeError", val |-> IntV(0)]

RECURSIVE NodeSetItem(_, _, _, _)
\* ParameterSet.__setitem__ on the tree object self: the object that owns
\* the last component of name is changed in place; a plain dict takes the
\* rest of the name for a key
NodeSetItem(h, self, name, value) ==
    LET split == Split(name) IN
    IF Len(split) = 1
    THEN [err |-> "ok",
          nodes |-> [h EXCEPT ![self].d = DictSet(@, name, value)]]
    ELSE LET first == DictGet(h[self].d, split[1]) IN
         IF first.err # "ok" THEN [err |-> first.err, nodes |-> h]
         ELSE IF first.val.k = "node"
              THEN NodeSetItem(h, first.val.v, split[2], value)
              ELSE IF first.val.k = "pdict"
              THEN [err |-> "ok",
                    nodes |-> [h EXCEPT ![first.val.v].d =
                                            DictSet(@, split[2], value)]]
              ELSE [err |-> "TypeError", nodes |-> h]

RECURSIVE NodeFlatItems(_, _, _, _), NodeFlat(_, _)
\* _nesteddictwalk over the keys of self from key i on
NodeFlatItems(h, self, keys, i) ==
    IF i > Len(keys) THEN <<>>
    ELSE LET value1 == h[self].d[keys[i]]
             below == NodeFlat(h, value1.v)
             here == IF value1.k \in {"node", "pdict"}
                     THEN [j \in 1..Len(below) |->
                              [name |-> keys[i] \o below[j].name,
                               value |-> below[j].value]]
                     ELSE <<[name |-> keys[i], value |-> value1]>>
         IN  here \o NodeFlatItems(h, self, keys, i + 1)

\* ParameterSet.flat(): the (dotted name, leaf) pairs in dict order
NodeFlat(h, self) == NodeFlatItems(h, self, OrderedKeys(h[self].d), 1)

\* ParameterSet._is_space()
IsSpace(h, self) ==
    \E i \in 1..Len(NodeFlat(h, self)) :
        NodeFlat(h, self)[i].value.k \in {"range", "dist"}

RECURSIVE NodeWalkKeys(_, _, _, _)
\* self[k] = walk(v, k) for the plain dicts v that self holds, from key i
\* on: a new ParameterSet with the items of v (numbers)
NodeWalkKeys(h, self, keys, i) ==
    IF i > Len(keys) THEN h
    ELSE LET v == h[self].d[keys[i]] IN
         IF v.k = "pdict"
         THEN NodeWalkKeys(
                  Append([h EXCEPT ![self].d = DictSet(@, keys[i], NodeV(Len(h) + 1))],
                         [cls |-> "ParameterSet", d |-> h[v.v].d]),
                  self, keys, i + 1)
         ELSE NodeWalkKeys(h, self, keys, i + 1)

\* ParameterSet(tmp) or ParameterSpace(tmp) for a tree object tmp: a new
\* object of class cls with the items of tmp; a nested ParameterSet is
\* re-referenced.  The keys of the spaces drawn are not in invalid_names.
NodeInit(h, initialiser, cls) ==
    [nodes |-> NodeWalkKeys(Append(h, [cls |-> cls, d |-> h[initialiser].d]),
                            Len(h) + 1, OrderedKeys(h[initialiser].d), 1),
     id |-> Len(h) + 1]

RECURSIVE NodeTreeCopyShared(_, _, _, _, _)
RECURSIVE NodeTreeCopyKeys(_, _, _, _, _), NodeTreeCopy(_, _)

\* a copy that re-references the nested ParameterSets as well
NodeTreeCopyShared(h, self, keys, i, tmp) ==
    IF i > Len(keys) THEN h
    ELSE NodeTreeCopyShared(
             [h EXCEPT ![tmp].d = DictSet(@, keys[i], h[self].d[keys[i]])],
             self, keys, i + 1, tmp)

\* a ParameterReference of a space is an object of `nodes` as well, d its
\* attributes; its operations have numbers for operands
ReferenceObject(path) ==
    [cls |-> "ParameterReference",
     d |-> (Key("reference_path") :> TupleV(path))
               @@ (Key("operations") :> TupleV(<<>>))]

\* ParameterReference.copy(): a new Reference with the path and the
\* operations of this one
ReferenceCopy(h, id) == [nodes |-> Append(h, h[id]), id |-> Len(h) + 1]

\* for key in self: tmp[key] = ..., from key i on
NodeTreeCopyKeys(h, self, keys, i, tmp) ==
    IF i > Len(keys) THEN h
    ELSE LET value == h[self].d[keys[i]] IN
         IF value.k = "node"
         THEN LET c == NodeTreeCopy(h, value.v) IN
              NodeTreeCopyKeys(
                  [c.nodes EXCEPT ![tmp].d = DictSet(@, keys[i], NodeV(c.id))],
                  self, keys, i + 1, tmp)
         ELSE IF value.k = "ref"
         THEN LET c == ReferenceCopy(h, value.v) IN
              NodeTreeCopyKeys(
                  [c.nodes EXCEPT ![tmp].d = DictSet(@, keys[i], RefV(c.id))],
                  self, keys, i + 1, tmp)
         ELSE NodeTreeCopyKeys(
                  [h EXCEPT ![tmp].d = DictSet(@, keys[i], value)],
                  self, keys, i + 1, tmp)

\* ParameterSet.tree_copy(): the tree objects are copied, the leaves
\* re-referenced; a copy that holds a Range is handed to ParameterSpace()
NodeTreeCopy(h, self) ==
    LET tmp == Len(h) + 1
        h1 == NodeTreeCopyKeys(
                  Append(h, [cls |-> "ParameterSet", d |-> EmptyTree]),
                  self, OrderedKeys(h[self].d), 1, tmp)
    IN  IF IsSpace(h1, tmp) THEN NodeInit(h1, tmp, "ParameterSpace")
        ELSE [nodes |-> h1, id |-> tmp]

\* ParameterSpace.range_keys()
RangeKeys(h, self) ==
    LET ranges == SelectSeq(NodeFlat(h, self),
                            LAMBDA item : item.value.k = "range")
    IN  [i \in 1..Len(ranges) |-> ranges[i].name]

RECURSIVE NumConditionsSum(_, _, _, _)
\* the candidate counts added up
NumConditionsSum(h, self, keys, i) ==
    IF i > Len(keys) THEN 0
    ELSE Len(RangeObjects[NodeGetItem(h, self, keys[i]).val.v])
             + NumConditionsSum(h, self, keys, i + 1)

RECURSIVE NumConditionsFrom(_, _, _, _)
\* n *= len(self[key]) for the keys from key i on
NumConditionsFrom(h, self, keys, i) ==
    IF i > Len(keys) THEN 1
    ELSE Len(RangeObjects[NodeGetItem(h, self, keys[i]).val.v])
             * NumConditionsFrom(h, self, keys, i + 1)

\* ParameterSpace.num_conditions()
NumConditions(h, self) == NumConditionsFrom(h, self, RangeKeys(h, self), 1)

RECURSIVE NodeNewKeys(_, _, _, _, _)
\* for k, v in initialiser.items(): self[k] = v, a dict v replaced by a
\* ParameterSet object (walk), from key i on
NodeNewKeys(h, d, keys, i, self) ==
    IF i > Len(keys) THEN h
    ELSE LET v == d[keys[i]]
             child == Len(h) + 1
             h1 == NodeNewKeys(
                       Append(h, [cls |-> "ParameterSet", d |-> EmptyTree]),
                       v.sub, OrderedKeys(v.sub), 1, child)
         IN  IF v.k \in {"tree", "dict"}
             THEN NodeNewKeys(
                      [h1 EXCEPT ![self].d = DictSet(@, keys[i], NodeV(child))],
                      d, keys, i + 1, self)
             ELSE NodeNewKeys([h EXCEPT ![self].d = DictSet(@, keys[i], v)],
                              d, keys, i + 1, self)

\* ParameterSet(initialiser) or ParameterSpace(initialiser) for a dict
NodeNew(h, initialiser, cls) ==
    [nodes |-> NodeNewKeys(Append(h, [cls |-> cls, d |-> EmptyTree]),
                           initialiser, OrderedKeys(initialiser), 1,
                           Len(h) + 1),
     id |-> Len(h) + 1]

\* the generator object a call creates: nothing of its body has run.
\* frames[j] is the state of the generator that loops over keys[j]: tmp is
\* the tree its inner loop works on (0 outside that loop), pos the number
\* of candidates the inner loop has taken; base tells whether the generator
\* for keys == [] has yielded.
NewGen(kind, keys, copy, n) ==
    [kind |-> kind, copy |-> copy, keys |-> keys,
     frames |-> [j \in 1..Len(keys) |-> [tmp |-> 0, pos |-> 0]],
     base |-> FALSE, n |-> n, rngs |-> <<>>, ndraws |-> 0]

\* next() ended the generator
Stop(h, g) == [nodes |-> h, g |-> g, id |-> 0, err |-> "StopIteration"]

RECURSIVE IterInnerRangeKeys(_, _, _, _)
\* next() on the generator iter_inner_range_keys(keys[j:], copy) of Self:
\* the generator runs from where it stood to its next yield; id is the tree
\* it yields
IterInnerRangeKeys(h, g, j, copy) ==
    IF j > Len(g.keys)
    THEN \* if len(keys) == 0: yield self.tree_copy()
         IF g.base THEN Stop(h, g)
         ELSE LET c == NodeTreeCopy(h, Self) IN
              [nodes |-> c.nodes, g |-> [g EXCEPT !.base = TRUE], id |-> c.id,
               err |-> "ok"]
    ELSE LET values == RangeObjects[NodeGetItem(h, Self, g.keys[j]).val.v]
             f == g.frames[j]
             \* for tmp in self.iter_inner_range_keys(keys[1:]): the next tmp
             \* is asked for when the loop over the candidates has ended
             inner == IterInnerRangeKeys(h, g, j + 1, FALSE)
             more == f.tmp # 0 /\ f.pos < Len(values)
             h0 == IF more THEN h ELSE inner.nodes
             g0 == IF more THEN g ELSE inner.g
             tmp == IF more THEN f.tmp ELSE inner.id
             pos == IF more THEN f.pos ELSE 0
             val == IntV(values[pos + 1])
             \* tmp[keys[0]] = val; if not tmp._is_space(): tmp = ParameterSet(tmp)
             set == NodeSetItem(h0, tmp, g.keys[j], val)
             conv == IF IsSpace(set.nodes, tmp)
                     THEN [nodes |-> set.nodes, id |-> tmp]
                     ELSE NodeInit(set.nodes, tmp, "ParameterSet")
             \* tmp_copy = tmp.tree_copy(); tmp_copy[keys[0]] = val;
             \* if not tmp_copy._is_space(): tmp = ParameterSet(tmp)
             tmp_copy == NodeTreeCopy(h0, tmp)
             setc == NodeSetItem(tmp_copy.nodes, tmp_copy.id, g.keys[j], val)
             convc == IF IsSpace(setc.nodes, tmp_copy.id)
                      THEN [nodes |-> setc.nodes, id |-> tmp]
                      ELSE NodeInit(setc.nodes, tmp, "ParameterSet")
         IN  IF ~more /\ inner.err # "ok"
             THEN [nodes |-> inner.nodes,
                   g |-> [inner.g EXCEPT !.frames[j] = [tmp |-> 0, pos |-> 0]],
                   id |-> 0, err |-> inner.err]
             ELSE IF copy
             THEN [nodes |-> convc.nodes,
                   g |-> [g0 EXCEPT !.frames[j] =
                                        [tmp |-> convc.id, pos |-> pos + 1]],
                   id |-> tmp_copy.id, err |-> "ok"]
             ELSE [nodes |-> conv.nodes,
                   g |-> [g0 EXCEPT !.frames[j] =
                                        [tmp |-> conv.id, pos |-> pos + 1]],
                   id |-> conv.id, err |-> "ok"]

\* the generator that takes the candidates last to first
IterRangeKeyBackwards(h, g) ==
    LET f == g.frames[1]
        c == IF f.tmp = 0 THEN NodeTreeCopy(h, Self)
             ELSE [nodes |-> h, id |-> f.tmp]
        values == RangeObjects[NodeGetItem(h, Self, g.keys[1]).val.v]
        set == NodeSetItem(c.nodes, c.id, g.keys[1],
                           IntV(values[Len(values) - f.pos]))
    IN  IF f.pos >= Len(values) THEN Stop(c.nodes, g)
        ELSE [nodes |-> set.nodes,
              g |-> [g EXCEPT !.frames[1] = [tmp |-> c.id, pos |-> f.pos + 1]],
              id |-> c.id, err |-> "ok"]

\* next() on the generator iter_range_key(range_key) of Self
IterRangeKey(h, g) ==
    LET f == g.frames[1]
        \* tmp = self.tree_copy(), when the body starts
        c == IF f.tmp = 0 THEN NodeTreeCopy(h, Self)
             ELSE [nodes |-> h, id |-> f.tmp]
        \* for val in self[range_key]
        range == NodeGetItem(h, Self, g.keys[1])
        values == RangeObjects[range.val.v]
        set == NodeSetItem(c.nodes, c.id, g.keys[1], IntV(values[f.pos + 1]))
    IN  IF range.err # "ok"
        THEN [nodes |-> c.nodes, g |-> g, id |-> 0, err |-> range.err]
        ELSE IF range.val.k # "range"
        THEN [nodes |-> c.nodes, g |-> g, id |-> 0, err |-> "TypeError"]
        ELSE IF f.pos >= Len(values) THEN Stop(c.nodes, g)
        ELSE [nodes |-> set.nodes,
              g |-> [g EXCEPT !.frames[1] = [tmp |-> c.id, pos |-> f.pos + 1]],
              id |-> c.id, err |-> "ok"]

\* the components of the names, in string order
Alphabet ==
    <<"a", "b", "c", "d", "keys", "label", "names", "parameters", "x", "y">>

Rank(c) == CHOOSE i \in 1..Len(Alphabet) : Alphabet[i] = c

RECURSIVE NameLess(_, _)
\* m < n for the strings of two dotted names ('.' sorts before any letter)
NameLess(m, n) ==
    IF m = <<>> THEN n # <<>>
    ELSE IF n = <<>> THEN FALSE
    ELSE IF m[1] = n[1] THEN NameLess(Tail(m), Tail(n))
    ELSE Rank(m[1]) < Rank(n[1])

RECURSIVE Sort(_)
\* list.sort() of a list of names
Sort(keys) ==
    IF keys = <<>> THEN <<>>
    ELSE LET rest == Sort(Tail(keys))
             before == SelectSeq(rest, LAMBDA n : NameLess(n, Head(keys)))
             after == SelectSeq(rest, LAMBDA n : ~NameLess(n, Head(keys)))
         IN  before \o <<Head(keys)>> \o after

\* methods of ParameterSet and of dict, for all of them
Methods == {"keys", "items", "update"}

\* getattr(obj, c): an attribute of the object or of its class is found
\* first, __getattr__ looks a parameter up only when there is none
GetAttr(h, obj, c) ==
    IF obj.k # "node" THEN [err |-> "AttributeError", val |-> IntV(0)]
    ELSE IF c \in NonParameterAttributes
    THEN [err |-> "ok", val |-> InitAttrs[c]]
    ELSE IF c \in Methods THEN [err |-> "ok", val |-> ClassAttrV]
    ELSE LET r == DictGet(h[obj.v].d, Key(c)) IN
         IF r.err = "ok" THEN r
         ELSE [err |-> "AttributeError", val |-> IntV(0)]

RECURSIVE EvalAttrs(_, _, _)
\* eval('obj.' + key)
EvalAttrs(h, obj, key) ==
    IF key = <<>> THEN [err |-> "ok", val |-> obj]
    ELSE LET r == GetAttr(h, obj, Head(key)) IN
         IF r.err # "ok" THEN r ELSE EvalAttrs(h, r.val, Tail(key))

\* list(_values).index(value); 0 stands for ValueError
ListIndex(values, value) ==
    IF value.k = "int" /\ \E i \in 1..Len(values) : values[i] = value.v
    THEN CHOOSE i \in 1..Len(values) :
             /\ values[i] = value.v
             /\ \A j \in 1..(i - 1) : values[j] # value.v
    ELSE 0

RECURSIVE ParameterSpaceIndexFrom(_, _, _, _, _)
\* for key in range_keys: ... index.append(value_index), from key i on;
\* the index counts from 0
ParameterSpaceIndexFrom(h, self, current_experiment, range_keys, i) ==
    IF i > Len(range_keys) THEN [err |-> "ok", index |-> <<>>]
    ELSE LET value == EvalAttrs(h, NodeV(current_experiment), range_keys[i])
             range == EvalAttrs(h, NodeV(self), range_keys[i])
             value_index == ListIndex(RangeObjects[range.val.v], value.val)
             rest == ParameterSpaceIndexFrom(h, self, current_experiment,
                                             range_keys, i + 1)
         IN  IF value.err # "ok" THEN [err |-> value.err, index |-> <<>>]
             ELSE IF range.err # "ok" THEN [err |-> range.err, index |-> <<>>]
             ELSE IF range.val.k # "range"
             THEN [err |-> "AttributeError", index |-> <<>>]
             ELSE IF value_index = 0 THEN [err |-> "ValueError", index |-> <<>>]
             ELSE IF rest.err # "ok" THEN rest
             ELSE [err |-> "ok", index |-> <<value_index - 1>> \o rest.index]

\* the index taken over the keys as range_keys() returns them
ParameterSpaceIndexUnsorted(h, self, current_experiment) ==
    ParameterSpaceIndexFrom(h, self, current_experiment, RangeKeys(h, self), 1)

\* ParameterSpace.parameter_space_index(current_experiment)
ParameterSpaceIndex(h, self, current_experiment) ==
    ParameterSpaceIndexFrom(h, self, current_experiment,
                            Sort(RangeKeys(h, self)), 1)

RECURSIVE DimensionsFrom(_, _, _, _)
\* for key in range_keys: dim.append(len(eval('self.' + key))), from key i on
DimensionsFrom(h, self, range_keys, i) ==
    IF i > Len(range_keys) THEN [err |-> "ok", dim |-> <<>>]
    ELSE LET range == EvalAttrs(h, NodeV(self), range_keys[i])
             rest == DimensionsFrom(h, self, range_keys, i + 1)
         IN  IF range.err # "ok" THEN [err |-> range.err, dim |-> <<>>]
             ELSE IF range.val.k # "range" THEN [err |-> "TypeError", dim |-> <<>>]
             ELSE IF rest.err # "ok" THEN rest
             ELSE [err |-> "ok",
                   dim |-> <<Len(RangeObjects[range.val.v])>> \o rest.dim]

\* ParameterSpace.parameter_space_dimension_labels(): dim and label
ParameterSpaceDimensionLabels(h, self) ==
    LET range_keys == Sort(RangeKeys(h, self))
        r == DimensionsFrom(h, self, range_keys, 1)
    IN  [err |-> r.err, dim |-> r.dim,
         label |-> IF r.err = "ok" THEN range_keys ELSE <<>>]

DistV(d) == [k |-> "dist", v |-> d, sub |-> <<>>]

\* ParameterSpace.dist_keys(), for Distributions that are leaves themselves
DistKeys(h, self) ==
    LET dists == SelectSeq(NodeFlat(h, self),
                           LAMBDA item : item.value.k = "dist")
    IN  [i \in 1..Len(dists) |-> dists[i].name]

RECURSIVE SetSamples(_, _, _, _, _, _)
\* for key in rngs: tmp[key] = rngs[key][i], from key j on
SetSamples(h, tmp, keys, rngs, i, j) ==
    IF j > Len(keys) THEN h
    ELSE SetSamples(NodeSetItem(h, tmp, keys[j], IntV(rngs[j][i])).nodes,
                    tmp, keys, rngs, i, j + 1)

\* the generator that fills in the first sample of every axis at each step
RealizeDistsFirstSample(h, g, draws) ==
    LET f == g.frames[1]
        first == f.tmp = 0
        rngs == IF first THEN draws ELSE g.rngs
        c == IF first THEN NodeTreeCopy(h, Self) ELSE [nodes |-> h, id |-> f.tmp]
        g1 == [g EXCEPT !.rngs = rngs,
                        !.ndraws = IF first THEN Len(g.keys) ELSE @,
                        !.frames[1] = [tmp |-> c.id, pos |-> f.pos]]
        filled == SetSamples(c.nodes, c.id, g.keys, rngs, 1, 1)
        yielded == IF g.copy THEN NodeTreeCopy(filled, c.id)
                   ELSE [nodes |-> filled, id |-> c.id]
    IN  IF f.pos >= g.n THEN Stop(c.nodes, g1)
        ELSE [nodes |-> yielded.nodes,
              g |-> [g1 EXCEPT !.frames[1].pos = f.pos + 1],
              id |-> yielded.id, err |-> "ok"]

\* next() on the generator realize_dists(n, copy) of Self.  draws[j] is
\* what self[keys[j]].next(n) returns when the body starts: the n samples
\* of the j-th Distribution.
RealizeDists(h, g, draws) ==
    LET f == g.frames[1]
        first == f.tmp = 0
        \* rngs[key] = self[key].next(n), then tmp = self.tree_copy()
        rngs == IF first THEN draws ELSE g.rngs
        c == IF first THEN NodeTreeCopy(h, Self) ELSE [nodes |-> h, id |-> f.tmp]
        g1 == [g EXCEPT !.rngs = rngs,
                        !.ndraws = IF first THEN Len(g.keys) ELSE @,
                        !.frames[1] = [tmp |-> c.id, pos |-> f.pos]]
        \* for key in rngs: tmp[key] = rngs[key][i]
        filled == SetSamples(c.nodes, c.id, g.keys, rngs, f.pos + 1, 1)
        \* yield tmp.tree_copy() if copy else tmp
        yielded == IF g.copy THEN NodeTreeCopy(filled, c.id)
                   ELSE [nodes |-> filled, id |-> c.id]
    IN  IF f.pos >= g.n THEN Stop(c.nodes, g1)
        ELSE [nodes |-> yielded.nodes,
              g |-> [g1 EXCEPT !.frames[1].pos = f.pos + 1],
              id |-> yielded.id, err |-> "ok"]

RECURSIVE Snap(_, _)
\* the tree object id as a nested dict of values; a Reference is read by
\* its attributes
Snap(h, id) ==
    [key \in DOMAIN h[id].d |->
        IF h[id].d[key].k = "node" THEN TreeV(Snap(h, h[id].d[key].v))
        ELSE IF h[id].d[key].k = "ref"
        THEN [k |-> "ref", v |-> 0, sub |-> h[h[id].d[key].v].d]
        ELSE IF h[id].d[key].k = "pdict" THEN DictV(Snap(h, h[id].d[key].v))
        ELSE h[id].d[key]]

-----------------------------------------------------------------------------
(* A ParameterSpace, the generators made from it and the index of a point *)

\* the dicts the spaces are constructed from
Spaces ==
    { (Key("x") :> RangeV(1)) @@ (Key("a") :> TreeV(Key("y") :> RangeV(2)))
          @@ (Key("b") :> TreeV(EmptyTree)),
      (Key("x") :> RangeV(1)) @@ (Key("y") :> RangeV(2)),
      Key("a") :> TreeV((Key("x") :> RangeV(1)) @@ (Key("y") :> RangeV(1))),
      Key("x") :> IntV(1),
      (Key("y") :> RangeV(1)) @@ (Key("x") :> IntV(2)),
      (Key("label") :> RangeV(1)) @@ (Key("x") :> RangeV(1)),
      (Key("keys") :> RangeV(1)) @@ (Key("x") :> RangeV(1)),
      Key("x") :> RangeV(3),
      (Key("x") :> RangeV(1)) @@ (Key("y") :> RangeV(1))
          @@ (Key("a") :> TreeV(Key("x") :> RangeV(1))),
      (Key("x") :> DistV(1)) @@ (Key("y") :> IntV(1)),
      (Key("x") :> DistV(1))
          @@ (Key("a") :> TreeV((Key("x") :> DistV(2)) @@ (Key("y") :> IntV(2)))),
      (Key("x") :> DistV(1)) @@ (Key("y") :> RangeV(1)) }

\* the values a point is given on an axis: those of the candidates and one
\* that no Range holds
PointValues == 1..(MaxLeaf + 2)

RECURSIVE PointsOf(_)
PointChoices(value) ==
    CASE value.k = "range" -> {IntV(n) : n \in PointValues}
      [] value.k = "tree" -> {TreeV(p) : p \in PointsOf(value.sub)}
      [] OTHER -> {value}

\* the dicts of the shape of t with a value in the place of every Range
PointsOf(t) ==
    { p \in [DOMAIN t -> UNION {PointChoices(t[key]) : key \in DOMAIN t}] :
          \A key \in DOMAIN t : p[key] \in PointChoices(t[key]) }

\* the samples a Distribution gives
SampleValues == 1..MaxLeaf

\* parameter_space_index has not been called for the tree
NoIndex == [err |-> "none", index |-> <<>>]

\* what the Distributions of the generator return when it draws from them
DrawsFor(g) ==
    IF g.kind = "dists" /\ g.frames[1].tmp = 0
    THEN [1..Len(g.keys) -> [1..g.n -> SampleValues]]
    ELSE {<<>>}

InitSpace ==
    /\ keyOrder \in Orders
    /\ \E s \in Spaces : nodes = NodeNew(<<>>, s, "ParameterSpace").nodes
    /\ gen = NoGen
    /\ out = <<>>
    /\ sets = <<>>
    /\ dif = NoDiff
    /\ rng = NoRange
    /\ pc = "idle"
    /\ last = NoOp
    /\ exc = "none"
    /\ tree = EmptyTree
    /\ rb = EmptyTree
    /\ todo = <<>>
    /\ nops = 0
    /\ heap = <<>>
    /\ refs = <<>>
    /\ idx = 0
    /\ calls = 0
    /\ passes = 0
    /\ tree0 = EmptyTree
    /\ heap0 = <<>>
    /\ after1 = EmptyTree
    /\ pass0 = EmptyTree
    /\ ev = NoCall
    /\ attrs = InitAttrs

\* gen = S.iter_inner(copy)
IterInnerCall ==
    /\ pc = "idle"
    /\ \E copy \in BOOLEAN :
          gen' = NewGen("inner", RangeKeys(nodes, Self), copy, 0)
    /\ pc' = "iter"
    /\ UNCHANGED <<tree, heap, keyOrder, refs, idx, exc, calls, passes, tree0,
                   heap0, after1, pass0, ev, last, rb, todo, nops, attrs, nodes,
                   out,
                   sets, dif, rng>>

\* gen = S.iter_range_key(range_key), range_key the name of a leaf of S
IterRangeKeyCall ==
    /\ pc = "idle"
    /\ \E i \in 1..Len(NodeFlat(nodes, Self)) :
          gen' = NewGen("range_key", <<NodeFlat(nodes, Self)[i].name>>, FALSE, 0)
    /\ pc' = "iter"
    /\ UNCHANGED <<tree, heap, keyOrder, refs, idx, exc, calls, passes, tree0,
                   heap0, after1, pass0, ev, last, rb, todo, nops, attrs, nodes,
                   out,
                   sets, dif, rng>>

\* gen = S.realize_dists(n, copy); the one frame is that of the generator
RealizeDistsCall ==
    /\ pc = "idle"
    /\ \E n \in 0..MaxDraws, copy \in BOOLEAN :
          gen' = [NewGen("dists", DistKeys(nodes, Self), copy, n)
                      EXCEPT !.frames = <<[tmp |-> 0, pos |-> 0]>>]
    /\ pc' = "iter"
    /\ UNCHANGED <<tree, heap, keyOrder, refs, idx, exc, calls, passes, tree0,
                   heap0, after1, pass0, ev, last, rb, todo, nops, attrs, nodes,
                   out,
                   sets, dif, rng>>

\* P = next(gen); the caller keeps P, and asks for the index of every P
\* before it goes on
GenNext ==
    /\ pc = "iter"
    /\ last.op = "next" => last.err # "ok"
    /\ \E draws \in DrawsFor(gen) :
          LET r == CASE gen.kind = "inner" ->
                            IterInnerRangeKeys(nodes, gen, 1, gen.copy)
                     [] gen.kind = "range_key" -> IterRangeKey(nodes, gen)
                     [] OTHER -> RealizeDists(nodes, gen, draws)
          IN  /\ nodes' = r.nodes
              /\ gen' = r.g
              /\ out' = IF r.err = "ok"
                        THEN Append(out, [id |-> r.id,
                                          snap |-> Snap(r.nodes, r.id),
                                          cls |-> r.nodes[r.id].cls,
                                          index |-> NoIndex])
                        ELSE out
              /\ pc' = CASE r.err = "ok" -> "iter"
                         [] r.err = "StopIteration" -> "done"
                         [] OTHER -> "raised"
              /\ exc' = IF r.err \in {"ok", "StopIteration"} THEN exc ELSE r.err
              /\ last' = [op |-> "next", name |-> <<>>, err |-> r.err,
                          val |-> NodeV(r.id), arg |-> IntV(0),
                          pre |-> EmptyTree]
    /\ UNCHANGED <<tree, heap, keyOrder, refs, idx, calls, passes, tree0, heap0,
                   after1, pass0, ev, rb, todo, nops, attrs,
                   sets, dif, rng>>

\* S.parameter_space_index(P) for the tree P that was just yielded; the
\* caller keeps what the call gave along with P
IndexCall ==
    /\ pc = "iter"
    /\ last.op = "next"
    /\ last.err = "ok"
    /\ LET P == out[Len(out)].id
           r == ParameterSpaceIndex(nodes, Self, P)
       IN  /\ last' = [op |-> "index", name |-> <<>>, err |-> r.err,
                       val |-> TupleV(r.index), arg |-> NodeV(P),
                       pre |-> EmptyTree]
           /\ out' = [out EXCEPT ![Len(out)].index = r]
    /\ UNCHANGED <<tree, heap, keyOrder, pc, refs, idx, exc, calls, passes,
                   tree0, heap0, after1, pass0, ev, rb, todo, nops, attrs, nodes,
                   gen,
                   sets, dif, rng>>

\* S.parameter_space_index(ParameterSet(point)) for a dict point
IndexPointCall ==
    /\ pc = "idle"
    /\ \E point \in PointsOf(Snap(nodes, Self)) \cup {EmptyTree} :
          LET new == NodeNew(nodes, point, "ParameterSet")
              r == ParameterSpaceIndex(new.nodes, Self, new.id)
          IN  /\ nodes' = new.nodes
              /\ last' = [op |-> "index", name |-> <<>>, err |-> r.err,
                          val |-> TupleV(r.index), arg |-> NodeV(new.id),
                          pre |-> EmptyTree]
    /\ pc' = "indexed"
    /\ UNCHANGED <<tree, heap, keyOrder, refs, idx, exc, calls, passes, tree0,
                   heap0, after1, pass0, ev, rb, todo, nops, attrs, gen, out,
                   sets, dif, rng>>

\* S.range_keys()
RangeKeysCall ==
    /\ pc = "idle"
    /\ last' = [op |-> "range_keys", name |-> <<>>, err |-> "ok",
                val |-> TupleV(RangeKeys(nodes, Self)), arg |-> IntV(0),
                pre |-> EmptyTree]
    /\ pc' = "keys"
    /\ UNCHANGED <<tree, heap, keyOrder, refs, idx, exc, calls, passes, tree0,
                   heap0, after1, pass0, ev, rb, todo, nops, attrs, nodes, gen,
                   out, sets, dif, rng>>

\* S.parameter_space_dimension_labels()
DimensionLabelsCall ==
    /\ pc = "idle"
    /\ LET r == ParameterSpaceDimensionLabels(nodes, Self)
       IN  last' = [op |-> "dimension_labels", name |-> <<>>, err |-> r.err,
                    val |-> TupleV(<<r.dim, r.label>>), arg |-> IntV(0),
                    pre |-> EmptyTree]
    /\ pc' = "keys"
    /\ UNCHANGED <<tree, heap, keyOrder, refs, idx, exc, calls, passes, tree0,
                   heap0, after1, pass0, ev, rb, todo, nops, attrs, nodes, gen,
                   out, sets, dif, rng>>

NextSpace ==
    \/ RangeKeysCall
    \/ DimensionLabelsCall
    \/ IterInnerCall
    \/ IterRangeKeyCall
    \/ RealizeDistsCall
    \/ GenNext
    \/ IndexCall
    \/ IndexPointCall

SpecSpace == InitSpace /\ [][NextSpace]_vars

-----------------------------------------------------------------------------
(* A space, its copy, the generators made from it, and the sets a caller   *)
(* makes on the trees it was handed                                        *)

\* the dicts the spaces are constructed from, with the Reference objects
\* they hold: axes at top level and nested, no axis, a Distribution next to
\* a Range, two with a list that holds a Range, and one with a Reference
FrameSpaces ==
    {[dict |-> sp, refs |-> <<>>] :
        sp \in {(Key("x") :> RangeV(1)) @@ (Key("a") :> TreeV(Key("y") :> RangeV(2)))
                    @@ (Key("b") :> TreeV(EmptyTree)),
                Key("a") :> TreeV((Key("x") :> RangeV(1)) @@ (Key("y") :> RangeV(1))),
                Key("x") :> IntV(1),
                (Key("x") :> DistV(1)) @@ (Key("a") :> TreeV(Key("y") :> RangeV(1)))}}
    \cup {[dict |-> (Key("x") :> ListV(<<RangeV(1), IntV(1)>>))
                       @@ (Key("y") :> IntV(1)),
           refs |-> <<>>],
          [dict |-> (Key("x") :> ListV(<<RangeV(1)>>))
                       @@ (Key("a") :> TreeV(Key("y") :> RangeV(1))),
           refs |-> <<>>],
          [dict |-> (Key("x") :> RangeV(1)) @@ (Key("a") :> TreeV(Key("y") :> IntV(1)))
                       @@ (Key("b") :> RefV(3)),
           refs |-> <<ReferenceObject(<<"x">>)>>]}

\* the value the caller sets: a number that no tree holds
SetValue == IntV(0)

\* the names the caller sets on the tree object id: those of its leaves and
\* a new top-level key
SetNames(h, id) ==
    {NodeFlat(h, id)[i].name : i \in 1..Len(NodeFlat(h, id))} \cup {Key("c")}

InitFrame ==
    /\ keyOrder \in Orders
    /\ \E sp \in FrameSpaces :
          nodes = NodeNew(<<>>, sp.dict, "ParameterSpace").nodes \o sp.refs
    /\ tree0 = Snap(nodes, Self)
    /\ gen = NoGen
    /\ out = <<>>
    /\ sets = <<>>
    /\ dif = NoDiff
    /\ rng = NoRange
    /\ pc = "idle"
    /\ last = NoOp
    /\ exc = "none"
    /\ tree = EmptyTree
    /\ rb = EmptyTree
    /\ todo = <<>>
    /\ nops = 0
    /\ heap = <<>>
    /\ refs = <<>>
    /\ idx = 0
    /\ calls = 0
    /\ passes = 0
    /\ heap0 = <<>>
    /\ after1 = EmptyTree
    /\ pass0 = EmptyTree
    /\ ev = NoCall
    /\ attrs = InitAttrs

\* S['a'] = {'y': 1}, before anything else is done with S: the dict is
\* stored as it is
SpaceSetCall ==
    /\ pc = "idle"
    /\ \A i \in 1..Len(nodes) : nodes[i].cls # "dict"
    /\ LET value == Len(nodes) + 1
           r == NodeSetItem(Append(nodes, [cls |-> "dict",
                                           d |-> Key("y") :> IntV(1)]),
                            Self, Key("a"), PlainDictV(value))
       IN  /\ nodes' = r.nodes
           /\ tree0' = Snap(r.nodes, Self)
    /\ UNCHANGED <<tree, heap, keyOrder, pc, refs, idx, exc, calls, passes,
                   heap0, after1, pass0, ev, last, rb, todo, nops, attrs, gen,
                   out, sets, dif, rng>>

\* C = S.tree_copy(); the caller keeps C
TreeCopyCall ==
    /\ pc = "idle"
    /\ LET r == NodeTreeCopy(nodes, Self)
       IN  /\ nodes' = r.nodes
           /\ out' = <<[id |-> r.id, snap |-> Snap(r.nodes, r.id),
                        cls |-> r.nodes[r.id].cls, index |-> NoIndex]>>
           /\ last' = [op |-> "tree_copy", name |-> <<>>, err |-> "ok",
                       val |-> NodeV(r.id), arg |-> IntV(0), pre |-> EmptyTree]
    /\ pc' = "copied"
    /\ UNCHANGED <<tree, heap, keyOrder, refs, idx, exc, calls, passes, tree0,
                   heap0, after1, pass0, ev, rb, todo, nops, attrs, gen, sets,
                   dif, rng>>

\* T[name] = value for the tree object T
CallerSet(T, name) ==
    LET r == NodeSetItem(nodes, T, name, SetValue)
    IN  /\ nodes' = r.nodes
        /\ sets' = Append(sets, [tree |-> T, name |-> name, err |-> r.err])

\* S[name] = value or C[name] = value, at a leaf, a nested tree or a new key
CopySetCall ==
    /\ pc = "copied"
    /\ Len(sets) < MaxSets
    /\ \E T \in {Self, out[1].id} :
          \E name \in SetNames(nodes, T) \cup DOMAIN nodes[T].d :
              CallerSet(T, name)
    /\ UNCHANGED <<tree, heap, keyOrder, pc, refs, idx, exc, calls, passes,
                   tree0, heap0, after1, pass0, ev, last, rb, todo, nops, attrs,
                   gen, out, dif, rng>>

\* P[name] = value for the tree P the generator yielded last, at a leaf or
\* a new key
YieldedSetCall ==
    /\ pc \in {"iter", "done"}
    /\ out # <<>>
    /\ Len(sets) < MaxSets
    /\ \E name \in SetNames(nodes, out[Len(out)].id) :
          CallerSet(out[Len(out)].id, name)
    /\ UNCHANGED <<tree, heap, keyOrder, pc, refs, idx, exc, calls, passes,
                   tree0, heap0, after1, pass0, ev, last, rb, todo, nops, attrs,
                   gen, out, dif, rng>>

NextFrame ==
    \/ SpaceSetCall
    \/ TreeCopyCall
    \/ CopySetCall
    \/ IterInnerCall
    \/ IterRangeKeyCall
    \/ RealizeDistsCall
    \/ GenNext
    \/ IndexCall
    \/ YieldedSetCall

SpecFrame == InitFrame /\ [][NextFrame]_vars

-----------------------------------------------------------------------------
(* What a tree's References stand for, read off the tree handed to the     *)
(* first call: the value at the target path, looked up from the root, with *)
(* the deferred operations applied left to right, a Reference operand      *)
(* standing for its own value.  An undefined value is an "err" record: 1   *)
(* the References depend on themselves (the budget n ran out), 2 the       *)
(* target path does not exist, 3 an operation is applied to a sub-tree.    *)

ErrV(c) == [k |-> "err", v |-> c, sub |-> <<>>]

SetMin(S) == CHOOSE m \in S : \A o \in S : m <= o

RECURSIVE DenoteVal(_, _), DenoteRef(_, _), DenotePath(_, _, _), DenoteOps(_, _, _, _)

DenoteVal(val, n) ==
    IF n = 0 THEN ErrV(1)
    ELSE CASE val.k = "ref" -> DenoteRef(val.v, n - 1)
           [] val.k = "tree" ->
                LET sub == [key \in DOMAIN val.sub |-> DenoteVal(val.sub[key], n - 1)]
                    bad == {sub[key].v : key \in {q \in DOMAIN sub : sub[q].k = "err"}}
                IN IF bad = {} THEN TreeV(sub) ELSE ErrV(SetMin(bad))
           [] OTHER -> val

DenotePath(t, name, n) ==
    LET h == SubSeq(name, 1, 1) IN
    IF n = 0 THEN ErrV(1)
    ELSE IF h \notin DOMAIN t THEN ErrV(2)
    ELSE IF Len(name) = 1 THEN DenoteVal(t[h], n - 1)
    ELSE LET c == IF t[h].k = "ref" THEN DenoteRef(t[h].v, n - 1) ELSE t[h] IN
         CASE c.k = "tree" -> DenotePath(c.sub, Tail(name), n - 1)
           [] c.k = "err" -> c
           [] OTHER -> ErrV(2)

DenoteOps(id, i, x, n) ==
    IF i > Len(heap0[id].ops) THEN x
    ELSE LET op == heap0[id].ops[i]
             arg == IF op.r THEN DenoteRef(op.a, n - 1) ELSE IntV(op.a)
         IN CASE arg.k = "err" -> arg
              [] arg.k = "int" -> DenoteOps(id, i + 1, IntV(Arith(op.f, x.v, arg.v)), n)
              [] OTHER -> ErrV(3)

DenoteRef(id, n) ==
    IF n = 0 THEN ErrV(1)
    ELSE LET base == DenotePath(tree0, heap0[id].path, n - 1) IN
         CASE base.k = "err" -> base
           [] base.k = "tree" -> IF heap0[id].ops = <<>> THEN base ELSE ErrV(3)
           [] OTHER -> DenoteOps(id, 1, base, n)

\* the first call's tree with every Reference replaced by what it stands for
Denoted0 == [key \in DOMAIN tree0 |-> DenoteVal(tree0[key], Fuel)]

\* the References are acyclic and every target path exists
Resolvable0 == \A key \in DOMAIN tree0 : Denoted0[key].k = "err" => Denoted0[key].v = 3

\* the References are acyclic and every one of them stands for a value
WellDefined0 == \A key \in DOMAIN tree0 : Denoted0[key].k # "err"

RECURSIVE HasRef(_)
\* some key of t, at any depth, holds a Reference
HasRef(t) ==
    \E key \in DOMAIN t :
        \/ t[key].k = "ref"
        \/ t[key].k \in {"tree", "dict"} /\ HasRef(t[key].sub)

RECURSIVE RefPositions(_)
\* the key paths of t that hold a Reference
RefPositions(t) ==
    UNION {CASE t[key].k = "ref" -> {<<key>>}
             [] t[key].k = "tree" -> {<<key>> \o p : p \in RefPositions(t[key].sub)}
             [] OTHER -> {} : key \in DOMAIN t}

RECURSIVE ValueAt(_, _)
\* the value a path of keys leads to
ValueAt(t, p) == IF Len(p) = 1 THEN t[p[1]] ELSE ValueAt(t[p[1]].sub, Tail(p))

\* descending the dotted name from t meets a key that holds a Reference
RECURSIVE RefOnPath(_, _)
RefOnPath(t, name) ==
    LET h == SubSeq(name, 1, 1) IN
    /\ h \in DOMAIN t
    /\ \/ t[h].k = "ref"
       \/ Len(name) > 1 /\ t[h].k = "tree" /\ RefOnPath(t[h].sub, Tail(name))

RECURSIVE NormV(_, _), NormRef(_, _)
\* a Reference by structure: its path and operations, operands by structure
NormRef(h, id) ==
    [k |-> "ref", v |-> 0, sub |-> <<>>, path |-> h[id].path,
     ops |-> [i \in 1..Len(h[id].ops) |->
                LET op == h[id].ops[i] IN
                [f |-> op.f, r |-> op.r, a |-> IF op.r THEN 0 ELSE op.a,
                 o |-> IF op.r THEN <<NormRef(h, op.a)>> ELSE <<>>]]]

\* a value by structure (deep equality of trees)
NormV(h, val) ==
    CASE val.k = "ref" -> NormRef(h, val.v)
      [] val.k \in {"tree", "dict"} ->
            [k |-> "tree", v |-> 0, path |-> <<>>, ops |-> <<>>,
             sub |-> [key \in DOMAIN val.sub |-> NormV(h, val.sub[key])]]
      [] OTHER -> [k |-> val.k, v |-> val.v, sub |-> <<>>, path |-> <<>>, ops |-> <<>>]

-----------------------------------------------------------------------------
(* The difference of two ParameterSets, A - B *)

\* x != y for two Python values without References: dicts compare key by
\* key, a ParameterSet being equal to a plain dict of equal items
PyNe(x, y) == NormV(<<>>, x) # NormV(<<>>, y)

RECURSIVE Sub(_, _)
\* ParameterSet.__sub__(self, other); other is any value.  r1 and r2 are
\* result1 and result2, plain dicts
Sub(self, other) ==
    IF other.k \notin {"tree", "dict"}
    THEN \* set(other): the value is not iterable
         [err |-> "TypeError", r1 |-> EmptyTree, r2 |-> EmptyTree]
    ELSE LET self_keys == DOMAIN self
             other_keys == DOMAIN other.sub
             intersection == self_keys \cap other_keys
             difference1 == self_keys \ other_keys
             difference2 == other_keys \ self_keys
             \* d1, d2 = self[item] - other[item]
             d(item) == Sub(self[item].sub, other.sub[item])
             nested == {item \in intersection : self[item].k = "tree"}
             in1 == {item \in intersection :
                        IF item \in nested THEN d(item).r1 # EmptyTree
                        ELSE PyNe(self[item], other.sub[item])}
             in2 == {item \in intersection :
                        IF item \in nested THEN d(item).r2 # EmptyTree
                        ELSE PyNe(self[item], other.sub[item])}
             result1 == [key \in difference1 \cup in1 |->
                            IF key \in nested THEN DictV(d(key).r1)
                            ELSE self[key]]
             result2 == [key \in difference2 \cup in2 |->
                            IF key \in nested THEN DictV(d(key).r2)
                            ELSE other.sub[key]]
             raised == {item \in nested : d(item).err # "ok"}
         IN  IF raised # {}
             THEN [err |-> d(CHOOSE item \in raised : TRUE).err,
                   r1 |-> EmptyTree, r2 |-> EmptyTree]
             ELSE IF /\ DOMAIN result1 = {}
                     /\ DOMAIN result2 = {}
                     /\ PyNe(TreeV(self), other)
             THEN \* assert self == other
                  [err |-> "AssertionError", r1 |-> EmptyTree, r2 |-> EmptyTree]
             ELSE [err |-> "ok", r1 |-> result1, r2 |-> result2]

\* the names and the values of the sets made before a difference is taken
DiffNames == {<<"a">>, <<"b">>, <<"a", "x">>}

DiffValues ==
    {IntV(n) : n \in 1..MaxLeaf}
    \cup {TreeV(Key("x") :> IntV(1)),
          DictV((Key("x") :> IntV(1)) @@ (Key("y") :> IntV(1)))}

\* A = ParameterSet(..) and B = ParameterSet(..)
InitDiff ==
    /\ keyOrder \in Orders
    /\ \E a, b \in Initialisers :
          /\ ParameterSetInit(a).err = "ok"
          /\ ParameterSetInit(b).err = "ok"
          /\ dif = [NoDiff EXCEPT !.A = ParameterSetInit(a).tree,
                                  !.B = ParameterSetInit(b).tree]
    /\ pc = "idle"
    /\ nops = 0
    /\ tree = EmptyTree
    /\ last = NoOp
    /\ rb = EmptyTree
    /\ todo = <<>>
    /\ exc = "none"
    /\ heap = <<>>
    /\ refs = <<>>
    /\ idx = 0
    /\ calls = 0
    /\ passes = 0
    /\ tree0 = EmptyTree
    /\ heap0 = <<>>
    /\ after1 = EmptyTree
    /\ pass0 = EmptyTree
    /\ ev = NoCall
    /\ attrs = InitAttrs
    /\ nodes = <<>>
    /\ gen = NoGen
    /\ out = <<>>
    /\ sets = <<>>
    /\ rng = NoRange

\* A[name] = value or B[name] = value
DiffSetCall ==
    /\ pc = "idle"
    /\ nops < MaxSets
    /\ nops' = nops + 1
    /\ \E name \in DiffNames, value \in DiffValues :
          \/ dif' = [dif EXCEPT !.A = SetItem(dif.A, name, value).tree]
          \/ dif' = [dif EXCEPT !.B = SetItem(dif.B, name, value).tree]
    /\ UNCHANGED <<tree, heap, keyOrder, pc, refs, idx, exc, calls, passes,
                   tree0, heap0, after1, pass0, ev, last, rb, todo, attrs,
                   nodes, gen, out, sets, rng>>

\* A - B
DiffCall ==
    /\ pc = "idle"
    /\ pc' = "diff"
    /\ dif' = [dif EXCEPT !.n = 1, !.ab = Sub(dif.A, TreeV(dif.B))]
    /\ UNCHANGED <<tree, heap, keyOrder, refs, idx, exc, calls, passes, tree0,
                   heap0, after1, pass0, ev, last, rb, todo, nops, attrs, nodes,
                   gen, out, sets, rng>>

\* B - A
DiffBackCall ==
    /\ pc = "diff"
    /\ pc' = "diffed"
    /\ dif' = [dif EXCEPT !.n = 2, !.ba = Sub(dif.B, TreeV(dif.A))]
    /\ UNCHANGED <<tree, heap, keyOrder, refs, idx, exc, calls, passes, tree0,
                   heap0, after1, pass0, ev, last, rb, todo, nops, attrs, nodes,
                   gen, out, sets, rng>>

NextDiff == DiffSetCall \/ DiffCall \/ DiffBackCall

SpecDiff == InitDiff /\ [][NextDiff]_vars

-----------------------------------------------------------------------------
(* ParameterRange: the object and the iterators over its values.  iters     *)
(* holds the iterator objects made over _values, each with the number of    *)
(* items it has given (pos), the items themselves (seen) and whether the    *)
(* caller was handed it (held); cur is the one that is _iter_values.        *)

\* _isiterable(x): x has __iter__ and is not a string
IsIterable(x) == x.kind \in {"list", "generator"}

\* what random.shuffle may leave of a list
Shuffles(items) ==
    { [i \in 1..Len(items) |-> items[q[i]]] :
        q \in {f \in [1..Len(items) -> 1..Len(items)] :
                  \A i, j \in 1..Len(items) : i # j => f[i] # f[j]} }

\* a new iterator over _values
NewIter(held) == [pos |-> 0, seen |-> <<>>, held |-> held]

\* ParameterRange.__init__(value, shuffle=shuffle); values is what _values
\* holds when it returns
ParameterRangeInit(value, shuffle, values) ==
    LET R == [NoRange EXCEPT !.made = TRUE, !.source = value,
                             !.shuffle = shuffle, !.op = "init"]
    IN  IF ~IsIterable(value) THEN [R EXCEPT !.err = "TypeError"]
        \* next(value.__iter__())
        ELSE IF value.items = <<>> THEN [R EXCEPT !.err = "StopIteration"]
        \* copy(value)
        ELSE IF value.kind = "generator" THEN [R EXCEPT !.err = "TypeError"]
        ELSE [R EXCEPT !.err = "ok", !.values = values,
                       !.iters = <<NewIter(FALSE)>>, !.cur = 1]

\* ParameterRange.__iter__
RangeIter(R) ==
    [R EXCEPT !.iters = Append(@, NewIter(TRUE)), !.cur = Len(R.iters) + 1,
              !.op = "iter", !.res = "ok"]

\* next(it) for the iterator object i
IterNext(R, i) ==
    IF R.iters[i].pos >= Len(R.values) THEN [R EXCEPT !.res = "StopIteration"]
    ELSE [R EXCEPT !.iters[i].pos = @ + 1,
                   !.iters[i].seen = Append(@, R.values[R.iters[i].pos + 1]),
                   !.res = "ok"]

\* ParameterRange.__next__, alias next
RangeNext(R) ==
    LET N == [IterNext(R, R.cur) EXCEPT !.op = "next"] IN
    IF N.res # "ok" THEN N
    ELSE [N EXCEPT !.value = R.values[N.iters[R.cur].pos],
                   !.pos = N.iters[R.cur].pos]

\* ParameterRange.__len__
RangeLen(R) == Len(R.values)

\* the sources a Range is constructed from: lists, one of them empty, a
\* number, a string and a generator
RangeSources ==
    {[kind |-> "list", items |-> l] :
        l \in {<<>>, <<1>>, <<2, 1>>} \cup {RangeObjects[r] : r \in 1..3}}
    \cup {[kind |-> "int", items |-> <<>>],
          [kind |-> "str", items |-> <<1, 2>>],
          [kind |-> "generator", items |-> <<1, 2>>]}

InitRange ==
    /\ rng = NoRange
    /\ pc = "idle"
    /\ keyOrder \in Orders
    /\ dif = NoDiff
    /\ nops = 0
    /\ tree = EmptyTree
    /\ last = NoOp
    /\ rb = EmptyTree
    /\ todo = <<>>
    /\ exc = "none"
    /\ heap = <<>>
    /\ refs = <<>>
    /\ idx = 0
    /\ calls = 0
    /\ passes = 0
    /\ tree0 = EmptyTree
    /\ heap0 = <<>>
    /\ after1 = EmptyTree
    /\ pass0 = EmptyTree
    /\ ev = NoCall
    /\ attrs = InitAttrs
    /\ nodes = <<>>
    /\ gen = NoGen
    /\ out = <<>>
    /\ sets = <<>>

\* R = ParameterRange(value, shuffle=shuffle)
NewParameterRange ==
    /\ pc = "idle"
    /\ pc' = "range"
    /\ \E value \in RangeSources, shuffle \in BOOLEAN :
          \E values \in IF shuffle THEN Shuffles(value.items) ELSE {value.items} :
              rng' = ParameterRangeInit(value, shuffle, values)
    /\ UNCHANGED <<tree, heap, keyOrder, refs, idx, exc, calls, passes, tree0,
                   heap0, after1, pass0, ev, last, rb, todo, nops, attrs, nodes,
                   gen, out, sets, dif>>

\* next(R)
RangeNextCall ==
    /\ pc = "range"
    /\ rng.err = "ok"
    /\ rng' = RangeNext(rng)
    /\ UNCHANGED <<tree, heap, keyOrder, pc, refs, idx, exc, calls, passes,
                   tree0, heap0, after1, pass0, ev, last, rb, todo, nops, attrs,
                   nodes, gen, out, sets, dif>>

\* iter(R), as a for loop over R begins with
RangeIterCall ==
    /\ pc = "range"
    /\ rng.err = "ok"
    /\ Len(rng.iters) <= MaxCalls
    /\ rng' = RangeIter(rng)
    /\ UNCHANGED <<tree, heap, keyOrder, pc, refs, idx, exc, calls, passes,
                   tree0, heap0, after1, pass0, ev, last, rb, todo, nops, attrs,
                   nodes, gen, out, sets, dif>>

\* a for loop over R takes its next value from the iterator it was handed
LoopNextCall ==
    /\ pc = "range"
    /\ rng.err = "ok"
    /\ \E i \in 1..Len(rng.iters) :
          /\ rng.iters[i].held
          /\ rng' = [IterNext(rng, i) EXCEPT !.op = "loop"]
    /\ UNCHANGED <<tree, heap, keyOrder, pc, refs, idx, exc, calls, passes,
                   tree0, heap0, after1, pass0, ev, last, rb, todo, nops, attrs,
                   nodes, gen, out, sets, dif>>

NextRange ==
    \/ NewParameterRange
    \/ RangeNextCall
    \/ RangeIterCall
    \/ LoopNextCall

SpecRange == InitRange /\ [][NextRange]_vars

-----------------------------------------------------------------------------
(* Claims about reference resolution *)

\* C1: a pass of replace_references that ends with the tree as it was when
\* the pass began, References remaining, ends the call with a failure
\* (ReferenceCycle), so that a cyclic tree such as {a: ref(b), b: ref(a)}
\* cannot be scanned again and again.
C1_StalledPassFails ==
    [][(pc = "eval" /\ idx = Len(refs) /\ tree' = pass0) => pc' = "raised"]_vars

\* C2: on a tree whose References are acyclic and whose target paths exist,
\* replace_references terminates, and whenever it returns no key at any
\* depth holds a Reference.  Every step of the call advances (passes, idx),
\* so the call terminates if it can step until it has returned or raised:
\* it is never left at a pass it is not followed into (MaxPasses, MaxDepth).
C2_TerminatesReferenceFree ==
    /\ Resolvable0 => (pc \in {"done", "raised"} \/ ENABLED NextRefs)
    /\ pc = "done" => ~HasRef(tree)

C2_Witness ==
    /\ pc = "done"
    /\ Resolvable0
    /\ \E p \in RefPositions(tree0) : Len(p) > 1
    /\ \E p \in RefPositions(tree0) : Len(p) = 1

\* C3: when replace_references has returned on an acyclic tree, every key
\* that held a Reference holds the value the Reference stands for: the
\* resolved value at its target path with its operations applied left to
\* right, Reference operands contributing their resolved values.
C3_ResolvedValues ==
    (pc = "done" /\ calls = 1 /\ Resolvable0) =>
        \A p \in RefPositions(tree0) :
            ValueAt(tree, p) = DenoteVal(ValueAt(tree0, p), Fuel)

\* C4: on an acyclic tree whose References all stand for a value, a
\* Reference whose target path meets a key that still holds a Reference (the
\* target itself or a key the dotted path passes through) is deferred,
\* whatever the order of the keys: evaluating it never fails.
C4_DependencyNeverFails ==
    (WellDefined0 /\ ev.called /\ RefOnPath(ev.pre, ev.hpre[ev.id].path))
        => ev.err = "ok"

\* C5: replace_references on a tree without References leaves it as it is,
\* and a second call on a tree the first call resolved returns the tree the
\* first call returned.
C5_Idempotent ==
    /\ (pc = "done" /\ calls > 1) => tree = after1
    /\ (pc = "done" /\ ~HasRef(tree0)) => (tree = tree0 /\ heap = heap0)

C5_Witness == pc = "done" /\ calls = 2 /\ HasRef(tree0) /\ tree # tree0

\* C6: evaluating a Reference whose target path holds a sub-tree raises
\* ValueError when the Reference has operations, and otherwise returns a
\* tree equal (deeply, by structure) to the target sub-tree.
C6_SubTreeTarget ==
    ev.called =>
        LET got == GetItem(ev.pre, ev.hpre[ev.id].path) IN
        (got.err = "ok" /\ got.val.k = "tree") =>
            IF ev.hpre[ev.id].ops # <<>>
            THEN ev.err = "ValueError"
            ELSE /\ ev.err = "ok"
                 /\ ev.val.k = "tree"
                 /\ NormV(ev.hpost, ev.val) = NormV(ev.hpre, got.val)

C6_Witness ==
    /\ ev.called
    /\ ev.hpre[ev.id].ops # <<>>
    /\ LET got == GetItem(ev.pre, ev.hpre[ev.id].path) IN
       got.err = "ok" /\ got.val.k = "tree" /\ HasRef(got.val.sub)
    /\ ev.err = "ValueError"

-----------------------------------------------------------------------------
(* Claims about dotted access, flat_add, update and the flat walk *)

RECURSIVE Descend(_, _)
\* the value reached from t by descending one component of the name per
\* separator, every component but the last naming a ParameterSet
Descend(t, name) ==
    LET h == SubSeq(name, 1, 1) IN
    IF h \notin DOMAIN t THEN [found |-> FALSE, val |-> IntV(0)]
    ELSE IF Len(name) = 1 THEN [found |-> TRUE, val |-> t[h]]
    ELSE IF t[h].k # "tree" THEN [found |-> FALSE, val |-> IntV(0)]
    ELSE Descend(t[h].sub, Tail(name))

RECURSIVE MissingIntermediate(_, _)
\* descending from t, a component of the name before the last one is absent
MissingIntermediate(t, name) ==
    LET h == SubSeq(name, 1, 1) IN
    /\ Len(name) > 1
    /\ \/ h \notin DOMAIN t
       \/ /\ t[h].k \in {"tree", "dict"}
          /\ MissingIntermediate(t[h].sub, Tail(name))

RECURSIVE Homogeneous(_)
\* every mapping held at any depth of t is a ParameterSet
Homogeneous(t) ==
    \A key \in DOMAIN t :
        /\ t[key].k # "dict"
        /\ t[key].k = "tree" => Homogeneous(t[key].sub)

RECURSIVE NoEmptyMapping(_)
\* no key of t, at any depth, holds an empty mapping
NoEmptyMapping(t) ==
    \A key \in DOMAIN t :
        t[key].k \in {"tree", "dict"} =>
            (DOMAIN t[key].sub # {} /\ NoEmptyMapping(t[key].sub))

RECURSIVE NoDottedKey(_)
\* no key stored at any depth of t contains the separator
NoDottedKey(t) ==
    \A key \in DOMAIN t :
        /\ Len(key) = 1
        /\ t[key].k \in {"tree", "dict"} => NoDottedKey(t[key].sub)

\* t1 == t2 as Python compares dicts: key by key, a ParameterSet being
\* equal to a plain dict of equal items
DeepEq(t1, t2) == NormV(<<>>, TreeV(t1)) = NormV(<<>>, TreeV(t2))

\* C7: ps[name] raises KeyError whenever a component of the dotted name is
\* absent or a component before the last names a value that is not a
\* ParameterSet, and in every other case returns the value reached by
\* descending one component per separator.
C7_GetKeyError ==
    last.op = "get" =>
        LET d == Descend(last.pre, last.name) IN
        IF d.found THEN last.err = "ok" /\ last.val = d.val
        ELSE last.err = "KeyError"

\* C8: ps[name] = value with a dotted name one of whose components before
\* the last is absent raises KeyError and leaves the tree as it was.
C8_StrictSetKeyError ==
    (last.op = "set" /\ MissingIntermediate(last.pre, last.name)) =>
        (last.err = "KeyError" /\ tree = last.pre)

\* C9 as stated: for every tree, flat_add of every pair of its flat walk to
\* an empty ParameterSet, in any order, gives a tree equal to it.
C9_RebuildInverseAll ==
    /\ pc # "raised"
    /\ (pc = "rebuild" /\ todo = <<>>) => DeepEq(rb, tree)

\* C9: for every tree in which no key at any depth holds an empty mapping
\* and no stored key contains the separator, flat_add of every pair of its
\* flat walk to an empty ParameterSet, in any order, never raises and gives
\* a tree equal to it.
C9_RebuildInverse ==
    (last.op = "flat" /\ NoEmptyMapping(tree) /\ NoDottedKey(tree)) =>
        /\ pc # "raised"
        /\ (pc = "rebuild" /\ todo = <<>>) => DeepEq(rb, tree)

C9_Witness ==
    /\ pc = "rebuild"
    /\ todo = <<>>
    /\ NoEmptyMapping(tree)
    /\ NoDottedKey(tree)
    /\ Cardinality(DOMAIN tree) > 1
    /\ \E key \in DOMAIN tree :
          /\ tree[key].k = "tree"
          /\ \E sub \in DOMAIN tree[key].sub : tree[key].sub[sub].k = "tree"
    /\ DeepEq(rb, tree)

\* C10: after any sequence of construction, set, flat_add and update calls
\* every mapping held at any depth of the tree is a ParameterSet.
C10_Homogeneous ==
    last.op \in {"init", "set", "flat_add", "update"} => Homogeneous(tree)

\* C11: after any sequence of construction, set, flat_add and update calls
\* no key stored at any depth of the tree contains the separator: a name
\* with a separator is a path into nested trees, never one flat key.
C11_NoSeparatorInKeys ==
    last.op \in {"init", "set", "flat_add", "update"} => NoDottedKey(tree)

RECURSIVE HoldsReserved(_)
\* some mapping of t has a key one of whose components is a reserved name
HoldsReserved(t) ==
    \E key \in DOMAIN t :
        \/ \E i \in 1..Len(key) : key[i] \in NonParameterAttributes
        \/ HoldsReserved(t[key].sub)

\* the call uses a reserved name as a key
UsesReserved(call) ==
    IF call.op = "init" THEN HoldsReserved(call.arg.sub)
    ELSE \E i \in 1..Len(call.name) : call.name[i] \in NonParameterAttributes

\* C12: a reserved name (label, flatten, names, parameters and the other
\* non-parameter attributes) never becomes a parameter key: a constructor,
\* strict set, lenient add or attribute-style set that uses one as a key
\* fails with InvalidName (the Exception that check_validity raises), and
\* the tree holds no such key afterwards.
C12_ReservedNamesRejected ==
    (last.op \in {"init", "set", "flat_add", "setattr"} /\ UsesReserved(last))
        => (last.err = "Exception" /\ ~HoldsReserved(tree))

-----------------------------------------------------------------------------
(* Claims about a ParameterSpace (SpecSpace).  The space S is the object   *)
(* Self, which no method changes; its axes are read off its nested dict.   *)

\* the space as a nested dict
SpaceDict == Snap(nodes, Self)

RECURSIVE AxesOf(_, _)
\* the dotted names of the leaves of t that are of kind k
AxesOf(t, k) ==
    UNION { IF t[key].k = "tree"
            THEN {key \o name : name \in AxesOf(t[key].sub, k)}
            ELSE IF t[key].k = k THEN {key} ELSE {} : key \in DOMAIN t }

RECURSIVE LeafAt(_, _)
\* the leaf of t at a dotted name that leads to one
LeafAt(t, name) ==
    IF Len(name) = 1 THEN t[name]
    ELSE LeafAt(t[SubSeq(name, 1, 1)].sub, Tail(name))

\* the candidate sequence of the Range axis of S at name
Candidates(name) == RangeObjects[LeafAt(SpaceDict, name).v]

\* one position in the candidate sequence for every Range axis of S
Combinations ==
    { c \in [AxesOf(SpaceDict, "range") -> 1..(MaxLeaf + 2)] :
          \A name \in AxesOf(SpaceDict, "range") :
              c[name] <= Len(Candidates(name)) }

RECURSIVE ProductOver(_)
\* the product of the candidate counts of a set of Range axes
ProductOver(axes) ==
    IF axes = {} THEN 1
    ELSE LET name == CHOOSE n \in axes : TRUE
         IN  Len(Candidates(name)) * ProductOver(axes \ {name})

\* the full-axis iteration of a space without Distributions has ended
InnerDone ==
    /\ pc = "done"
    /\ gen.kind = "inner"
    /\ AxesOf(SpaceDict, "dist") = {}

\* the tree is a point: it has a number where S has a Range, and S's leaf
\* everywhere else
IsPointOf(t, c) ==
    /\ AxesOf(t, "int") = AxesOf(SpaceDict, "int") \cup AxesOf(SpaceDict, "range")
    /\ AxesOf(t, "range") = {}
    /\ \A name \in AxesOf(SpaceDict, "int") : LeafAt(t, name) = LeafAt(SpaceDict, name)
    /\ \A name \in AxesOf(SpaceDict, "range") :
           LeafAt(t, name) = IntV(Candidates(name)[c[name]])

\* C13: when full-axis iteration of a space whose axes are Ranges has ended,
\* the number of trees yielded is num_conditions(), num_conditions() is the
\* product of the candidate counts of the Range axes, and every combination
\* of one candidate per axis was yielded as often as it occurs among the
\* combinations (once, for Ranges without repeated candidates).
C13_FullIteration ==
    InnerDone =>
        /\ Len(out) = NumConditions(nodes, Self)
        /\ NumConditions(nodes, Self) = ProductOver(AxesOf(SpaceDict, "range"))
        /\ \A c \in Combinations :
               Cardinality({i \in 1..Len(out) : IsPointOf(out[i].snap, c)})
                   = Cardinality({c2 \in Combinations :
                                     \A name \in DOMAIN c :
                                         Candidates(name)[c2[name]]
                                             = Candidates(name)[c[name]]})
        /\ \A i \in 1..Len(out) : \E c \in Combinations : IsPointOf(out[i].snap, c)

\* axes of lengths MaxLeaf and MaxLeaf + 1 have given all their points
C13_Witness ==
    /\ InnerDone
    /\ \E m, n \in AxesOf(SpaceDict, "range") :
           /\ Len(Candidates(m)) = MaxLeaf
           /\ Len(Candidates(n)) = MaxLeaf + 1
    /\ Cardinality(AxesOf(SpaceDict, "range")) = 2
    /\ Len(out) = MaxLeaf * (MaxLeaf + 1)
    /\ \A i, j \in 1..Len(out) : i # j => out[i].snap # out[j].snap

RECURSIVE Reach(_, _)
\* the tree objects that make up the tree whose root is the object id
Reach(h, id) ==
    {id} \cup UNION { IF h[id].d[key].k = "node" THEN Reach(h, h[id].d[key].v)
                      ELSE {} : key \in DOMAIN h[id].d }

\* C14: under the copy policy a tree the caller retains stays what it was
\* when it was yielded, at top-level and nested keys alike, whatever steps
\* are taken afterwards, and no two yielded trees have a tree object in
\* common.
C14_CopyIndependent ==
    (gen.kind = "inner" /\ gen.copy) =>
        /\ \A i \in 1..Len(out) : Snap(nodes, out[i].id) = out[i].snap
        /\ \A i, j \in 1..Len(out) :
               i # j => Reach(nodes, out[i].id) \cap Reach(nodes, out[j].id) = {}

\* the copying iteration over a top-level and a nested axis has ended, and
\* the first and the last tree retained differ on both axes
C14_Witness ==
    /\ pc = "done"
    /\ gen.kind = "inner"
    /\ gen.copy
    /\ {<<"x">>, <<"a", "y">>} \subseteq AxesOf(SpaceDict, "range")
    /\ Len(out) > 3
    /\ LET first == Snap(nodes, out[1].id)
           final == Snap(nodes, out[Len(out)].id)
       IN  /\ LeafAt(first, <<"x">>) # LeafAt(final, <<"x">>)
           /\ LeafAt(first, <<"a", "y">>) # LeafAt(final, <<"a", "y">>)

\* C15: under the reuse policy every step yields one and the same tree
\* object, so that the trees retained are all equal once the iteration has
\* ended.
C15_ReuseSameObject ==
    (gen.kind = "inner" /\ ~gen.copy) =>
        /\ \A i, j \in 1..Len(out) : out[i].id = out[j].id
        /\ pc = "done" =>
               \A i, j \in 1..Len(out) :
                   Snap(nodes, out[i].id) = Snap(nodes, out[j].id)

\* the part of C15 about equality alone
C15_ReuseAllEqual ==
    (gen.kind = "inner" /\ ~gen.copy /\ pc = "done") =>
        \A i, j \in 1..Len(out) : Snap(nodes, out[i].id) = Snap(nodes, out[j].id)

\* C16: under either copy policy a tree yielded by full-axis iteration that
\* holds no Range any more is a ParameterSet and not a ParameterSpace.
C16_SurfacedAsParameterSet ==
    gen.kind = "inner" =>
        \A i \in 1..Len(out) :
            AxesOf(out[i].snap, "range") = {} => out[i].cls = "ParameterSet"

\* the same under the reuse policy alone, for a tree that holds neither a
\* Range nor a Distribution
C16_ReuseSurfaced ==
    (gen.kind = "inner" /\ ~gen.copy) =>
        \A i \in 1..Len(out) :
            (AxesOf(out[i].snap, "range") \cup AxesOf(out[i].snap, "dist") = {})
                => out[i].cls = "ParameterSet"

\* the Range axes of S in the string order of their names
SortedAxes ==
    LET axes == AxesOf(SpaceDict, "range") IN
    CHOOSE seq \in [1..Cardinality(axes) -> axes] :
        \A i, j \in 1..Cardinality(axes) : i < j => NameLess(seq[i], seq[j])

\* index is the coordinate of the point t: one entry per sorted Range axis,
\* counted from 0, that leads to the point's value among the candidates
IsCoordinateOf(index, t) ==
    /\ Len(index) = Len(SortedAxes)
    /\ \A k \in 1..Len(index) :
           LET values == Candidates(SortedAxes[k]) IN
           /\ index[k] + 1 \in 1..Len(values)
           /\ LeafAt(t, SortedAxes[k]) = IntV(values[index[k] + 1])

\* every index asked for a yielded tree is its coordinate, and trees that
\* differ have different indices
IndexInverse ==
    /\ \A i \in 1..Len(out) :
           out[i].index.err # "none" =>
               /\ out[i].index.err = "ok"
               /\ IsCoordinateOf(out[i].index.index, out[i].snap)
    /\ \A i, j \in 1..Len(out) :
           (out[i].index.err = "ok" /\ out[j].index.err = "ok"
                /\ out[i].snap # out[j].snap)
               => out[i].index.index # out[j].index.index

\* some component of the name of a Range axis of S is the name of an
\* attribute or a method of the tree
AxisNamedAsAttribute ==
    \E name \in AxesOf(SpaceDict, "range") :
        \E k \in 1..Len(name) : name[k] \in NonParameterAttributes \cup Methods

\* C17: for every tree P that full-axis iteration of S yields,
\* S.parameter_space_index(P), called when P is yielded, returns a tuple
\* with one entry per sorted Range key, the entry being the position of P's
\* value for that axis in the candidate sequence of S; different points
\* get different tuples.
C17_AxisIndexInverse == gen.kind = "inner" => IndexInverse

\* the same for the spaces none of whose axes bears the name of an attribute
C17_PlainAxes == (gen.kind = "inner" /\ ~AxisNamedAsAttribute) => IndexInverse

\* every point of a space with a top-level and a nested axis has its index
C17_PlainWitness ==
    /\ pc = "iter"
    /\ gen.kind = "inner"
    /\ AxesOf(SpaceDict, "range") = {<<"x">>, <<"a", "y">>}
    /\ Len(out) = MaxLeaf * (MaxLeaf + 1)
    /\ \A i \in 1..Len(out) : out[i].index.err = "ok"
    /\ out[Len(out)].index.index = <<MaxLeaf, MaxLeaf - 1>>

\* the point t has a number at every Range axis of S
HasAllAxes(t) ==
    \A name \in AxesOf(SpaceDict, "range") :
        Descend(t, name).found /\ Descend(t, name).val.k = "int"

\* the number the point t has at some Range axis of S is not among the
\* candidates of that axis
OutsideSpace(t) ==
    \E name \in AxesOf(SpaceDict, "range") :
        \A i \in 1..Len(Candidates(name)) :
            Candidates(name)[i] # Descend(t, name).val.v

\* parameter_space_index(point) fails with ValueError exactly for the points
\* outside the space
PointNotInSpace ==
    (last.op = "index" /\ pc = "indexed"
         /\ HasAllAxes(Snap(nodes, last.arg.v)))
        => (last.err = "ValueError" <=> OutsideSpace(Snap(nodes, last.arg.v)))

\* C18: parameter_space_index(point) fails with ValueError exactly when the
\* point's value at some Range axis of the space is absent from the
\* candidate sequence of that axis, and returns no index for such a point.
C18_PointNotInSpace ==
    /\ PointNotInSpace
    /\ (last.op = "index" /\ pc = "indexed"
            /\ HasAllAxes(Snap(nodes, last.arg.v))
            /\ OutsideSpace(Snap(nodes, last.arg.v)))
           => last.err # "ok"

\* the same for the spaces none of whose axes bears the name of an attribute
C18_PlainAxes == ~AxisNamedAsAttribute => PointNotInSpace

RECURSIVE WithLeaf(_, _, _)
\* the nested dict t with the value v at the dotted name
WithLeaf(t, name, v) ==
    [key \in DOMAIN t |->
        IF key # SubSeq(name, 1, 1) THEN t[key]
        ELSE IF Len(name) = 1 THEN v
        ELSE TreeV(WithLeaf(t[key].sub, Tail(name), v))]

\* the generator is that of iter_range_key for a Range axis of S
RangeKeyIteration ==
    /\ gen.kind = "range_key"
    /\ gen.keys[1] \in AxesOf(SpaceDict, "range")

\* C19: iter_range_key(path) yields as many trees as the Range at path has
\* candidates; the k-th tree, as it is when yielded, has the k-th candidate
\* at path and the space's value at every other key.
C19_SingleAxis ==
    RangeKeyIteration =>
        /\ Len(out) <= Len(Candidates(gen.keys[1]))
        /\ pc = "done" => Len(out) = Len(Candidates(gen.keys[1]))
        /\ pc \in {"iter", "done"}
        /\ \A k \in 1..Len(out) :
               out[k].snap = WithLeaf(SpaceDict, gen.keys[1],
                                      IntV(Candidates(gen.keys[1])[k]))

\* the iteration over the nested axis of MaxLeaf + 1 candidates has ended,
\* next to another axis that is still a Range in every tree yielded
C19_Witness ==
    /\ RangeKeyIteration
    /\ pc = "done"
    /\ gen.keys[1] = <<"a", "y">>
    /\ Len(out) = MaxLeaf + 1
    /\ \A k \in 1..Len(out) : out[k].snap[Key("x")].k = "range"

RECURSIVE WithSamples(_, _)
\* the nested dict t with the i-th sample drawn for it in the place of each
\* of the Distribution axes from the j-th on
WithSamples(t, ij) ==
    IF ij[2] > Len(gen.keys) THEN t
    ELSE WithSamples(WithLeaf(t, gen.keys[ij[2]], IntV(gen.rngs[ij[2]][ij[1]])),
                     <<ij[1], ij[2] + 1>>)

-----------------------------------------------------------------------------
(* Claims about what evaluating a Reference leaves behind (SpecRefs) *)

\* the Reference objects used as operands of the Reference id
OperandsOf(h, id) ==
    {h[id].ops[i].a : i \in {j \in 1..Len(h[id].ops) : h[id].ops[j].r}}

\* C30: evaluating a Reference modifies neither that Reference nor any
\* Reference used as one of its operands, so that a second evaluation
\* against the same tree gives what the first gave; and when one Reference
\* object is held by two keys, replace_references leaves both keys with the
\* value that a single occurrence of the Reference stands for.
C30_EvaluatePure ==
    /\ ev.called =>
          /\ \A id \in {ev.id} \cup OperandsOf(ev.hpre, ev.id) :
                 ev.hpost[id] = ev.hpre[id]
          /\ LET again == Evaluate(ev.hpost, ev.pre, ev.id) IN
             /\ again.err = ev.err
             /\ NormV(again.heap, again.val) = NormV(ev.hpost, ev.val)
    /\ (pc = "done" /\ calls = 1 /\ Resolvable0) =>
          \A p, q \in RefPositions(tree0) :
              (p # q /\ ValueAt(tree0, p) = ValueAt(tree0, q)) =>
                  ValueAt(tree, p) = DenoteVal(ValueAt(tree0, p), Fuel)

\* the part of C30 about the Reference that is evaluated, its operands left
\* aside
C30_SelfUnchanged ==
    ev.called => ev.hpost[ev.id] = ev.hpre[ev.id]

\* a Reference without Reference operands was evaluated to a number
C30_SelfWitness ==
    /\ ev.called
    /\ ev.err = "ok"
    /\ ev.val.k = "int"
    /\ ev.hpre[ev.id].ops # <<>>
    /\ OperandsOf(ev.hpre, ev.id) = {}

-----------------------------------------------------------------------------
(* Claims about the difference of two trees (SpecDiff) *)

RECURSIVE PathsIn(_)
\* the key paths of a mapping, those of its nested mappings included
PathsIn(t) ==
    UNION { {<<key>>} \cup
            (IF t[key].k \in {"tree", "dict"}
             THEN {<<key>> \o q : q \in PathsIn(t[key].sub)} ELSE {}) :
            key \in DOMAIN t }

RECURSIVE Present(_, _)
\* the key path p leads to a value of t
Present(t, p) ==
    /\ p[1] \in DOMAIN t
    /\ Len(p) > 1 =>
          (t[p[1]].k \in {"tree", "dict"} /\ Present(t[p[1]].sub, Tail(p)))

\* what a difference X - Y reported: only keys that one side lacks or whose
\* values differ; nothing for equal trees; equal trees when nothing
ReportOk(X, Y, res) ==
    res.err = "ok" =>
        /\ \A p \in PathsIn(res.r1) \cup PathsIn(res.r2) :
               \/ ~Present(X, p)
               \/ ~Present(Y, p)
               \/ PyNe(ValueAt(X, p), ValueAt(Y, p))
        /\ DeepEq(X, Y) => (res.r1 = EmptyTree /\ res.r2 = EmptyTree)
        /\ (res.r1 = EmptyTree /\ res.r2 = EmptyTree) => DeepEq(X, Y)

RECURSIVE Alike(_, _)
\* no key, at any depth, holds a ParameterSet in one tree and something
\* else in the other
Alike(X, Y) ==
    \A key \in DOMAIN X \cap DOMAIN Y :
        /\ (X[key].k = "tree") = (Y[key].k = "tree")
        /\ X[key].k = "tree" => Alike(X[key].sub, Y[key].sub)

\* C21: A - B and B - A both succeed, whatever the two trees hold (a
\* sub-tree on one side and a number on the other included), and return the
\* same two mappings in swapped positions.
C21_DiffSymmetry ==
    dif.n = 2 =>
        /\ dif.ab.err = "ok"
        /\ dif.ba.err = "ok"
        /\ DeepEq(dif.ab.r1, dif.ba.r2)
        /\ DeepEq(dif.ab.r2, dif.ba.r1)

\* C21 for two trees in which every key they share holds a ParameterSet in
\* both or in neither
C21_AlikeSymmetry ==
    (dif.n = 2 /\ Alike(dif.A, dif.B)) => C21_DiffSymmetry

C21_AlikeWitness ==
    /\ dif.n = 2
    /\ Alike(dif.A, dif.B)
    /\ \E p \in PathsIn(dif.ab.r1) : Len(p) > 1
    /\ dif.ab.r1 # dif.ab.r2

\* C22: a difference reports a key, at any depth, only if one side lacks it
\* or the two values differ, so that a key with the same value on both sides
\* is in neither mapping; A - A gives two empty mappings, and two empty
\* mappings are given only for equal trees.
C22_DiffReports ==
    /\ dif.n >= 1 => ReportOk(dif.A, dif.B, dif.ab)
    /\ dif.n = 2 => ReportOk(dif.B, dif.A, dif.ba)

\* C22 for trees whose nested mappings are all ParameterSets
C22_HomogeneousReports ==
    (Homogeneous(dif.A) /\ Homogeneous(dif.B)) => C22_DiffReports

C22_HomogeneousWitness ==
    /\ dif.n = 2
    /\ Homogeneous(dif.A)
    /\ Homogeneous(dif.B)
    /\ dif.ab.err = "ok"
    /\ \E p \in PathsIn(dif.ab.r2) : Len(p) > 1
    /\ \E p \in PathsIn(dif.A) : Len(p) > 1 /\ p \notin PathsIn(dif.ab.r1)

-----------------------------------------------------------------------------
(* Claims about a ParameterRange (SpecRange) *)

\* the source can be iterated over
HasIterationProtocol(value) == value.kind \in {"list", "str", "generator"}

\* C23: constructing a Range succeeds for every source that can be iterated
\* over and fails with TypeError exactly for a source that cannot; the Range
\* has as many candidates as its source, and every iteration gives those of
\* the source in the source's order when shuffle is off.
C23_RangeConstruction ==
    rng.made =>
        /\ HasIterationProtocol(rng.source) => rng.err = "ok"
        /\ rng.err = "TypeError" <=> ~HasIterationProtocol(rng.source)
        /\ rng.err = "ok" =>
              /\ RangeLen(rng) = Len(rng.source.items)
              /\ ~rng.shuffle =>
                    \A i \in 1..Len(rng.iters) :
                        rng.iters[i].seen
                            = SubSeq(rng.source.items, 1, rng.iters[i].pos)

\* C23 for the sources that are lists with a first item, or that cannot be
\* iterated over
C23_ListSources ==
    (rng.source.kind \in {"list", "int"}
        /\ (rng.source.kind = "list" => rng.source.items # <<>>))
            => C23_RangeConstruction

C23_ListWitness ==
    /\ rng.made
    /\ rng.err = "ok"
    /\ ~rng.shuffle
    /\ \E i \in 1..Len(rng.iters) :
           /\ rng.iters[i].held
           /\ rng.iters[i].seen = rng.source.items
           /\ Len(rng.iters[i].seen) > MaxLeaf

\* the position of the cursor of the Range, _iter_values
CursorPos == IF rng.made /\ rng.err = "ok" THEN rng.iters[rng.cur].pos ELSE 0

\* C26: whatever next() calls and iterations are made in whatever order,
\* the cursor of the Range never moves backward, and every next() gives the
\* candidate at a position after that of the candidate the next() before
\* gave.
C26_ForwardOnly ==
    [][/\ CursorPos' >= CursorPos
       /\ (rng'.op = "next" /\ rng'.res = "ok") => rng'.pos > rng.pos]_vars

\* C26 as long as nothing has iterated over the Range
C26_NextOnly ==
    [][Len(rng'.iters) <= 1 =>
          /\ CursorPos' >= CursorPos
          /\ (rng'.op = "next" /\ rng'.res = "ok") => rng'.pos > rng.pos]_vars

-----------------------------------------------------------------------------
(* Claims about the axes of a space and the order of its points (SpecSpace) *)

\* the list holds exactly the names of the Range leaves of S, each once
ListsTheAxes(keys) ==
    /\ {keys[i] : i \in 1..Len(keys)} = AxesOf(SpaceDict, "range")
    /\ Len(keys) = Cardinality(AxesOf(SpaceDict, "range"))

\* dim and label are the candidate counts and the names of the sorted axes
LabelsTheAxes ==
    /\ last.err = "ok"
    /\ last.val.sub[2] = SortedAxes
    /\ last.val.sub[1] = [i \in 1..Len(SortedAxes) |-> Len(Candidates(SortedAxes[i]))]

\* C27: range_keys() returns the dotted names of exactly the leaves that
\* are Ranges, each once, in sorted order whatever the order in which the
\* keys were inserted, and parameter_space_dimension_labels() returns that
\* sorted list along with the list of the candidate counts.
C27_RangeKeysSorted ==
    /\ (pc = "keys" /\ last.op = "range_keys") =>
           /\ ListsTheAxes(last.val.sub)
           /\ last.val.sub = SortedAxes
    /\ (pc = "keys" /\ last.op = "dimension_labels") => LabelsTheAxes

\* C27 without the order of range_keys(), for the spaces none of whose axes
\* bears the name of an attribute
C27_AxesAndLabels ==
    /\ (pc = "keys" /\ last.op = "range_keys") => ListsTheAxes(last.val.sub)
    /\ (pc = "keys" /\ last.op = "dimension_labels" /\ ~AxisNamedAsAttribute)
           => LabelsTheAxes

\* the labels of a top-level and a nested axis, the nested one first
C27_LabelsWitness ==
    /\ pc = "keys"
    /\ last.op = "dimension_labels"
    /\ last.val.sub = << <<MaxLeaf + 1, MaxLeaf>>, << <<"a", "y">>, <<"x">> >> >>

RECURSIVE LexLeq(_, _)
\* a <= b for two tuples of numbers
LexLeq(a, b) ==
    IF a = <<>> THEN TRUE
    ELSE IF b = <<>> THEN FALSE
    ELSE IF a[1] = b[1] THEN LexLeq(Tail(a), Tail(b))
    ELSE a[1] < b[1]

\* the tuple back to front
Reversed(a) == [i \in 1..Len(a) |-> a[Len(a) + 1 - i]]

\* C28: the index tuples of the trees that full-axis iteration yields,
\* taken in the order of the yields, ascend lexicographically over the
\* sorted Range keys: the last sorted axis varies fastest.
C28_IndexOrder ==
    gen.kind = "inner" =>
        \A i, j \in 1..Len(out) :
            (i < j /\ out[i].index.err = "ok" /\ out[j].index.err = "ok")
                => LexLeq(out[i].index.index, out[j].index.index)

\* when range_keys() gives the axes in sorted order it is the first sorted
\* axis that varies fastest: the tuples ascend read back to front
C28_FirstKeyFastest ==
    (gen.kind = "inner" /\ gen.keys = SortedAxes) =>
        \A i, j \in 1..Len(out) :
            (i < j /\ out[i].index.err = "ok" /\ out[j].index.err = "ok")
                => LexLeq(Reversed(out[i].index.index),
                          Reversed(out[j].index.index))

C28_FirstKeyWitness ==
    /\ InnerDone
    /\ gen.keys = SortedAxes
    /\ Len(out) = MaxLeaf * (MaxLeaf + 1)
    /\ \A i \in 1..Len(out) : out[i].index.err = "ok"
    /\ out[2].index.index = <<1, 0>>

-----------------------------------------------------------------------------
(* Claims about a copy of a space and about what enumeration leaves of it  *)
(* (SpecFrame).  tree0 is the space as it was before the copy or the       *)
(* generator was made.                                                     *)

\* the space holds no plain dict
NoPlainDict == \A i \in 1..Len(nodes) : nodes[i].cls # "dict"

RECURSIVE AsTree(_)
\* the nested dict t with its plain dicts read as trees: a dict equals a
\* ParameterSet with the same items
AsTree(t) ==
    [key \in DOMAIN t |->
        IF t[key].k \in {"tree", "dict"} THEN TreeV(AsTree(t[key].sub))
        ELSE t[key]]

\* the caller has set something on the tree object T
SetOn(T) == \E k \in 1..Len(sets) : sets[k].tree = T

\* the leaves of the tree object a that are neither trees nor References
\* are the very objects the tree object b has at the same names, and the
\* References of a are not those of b
LeavesShared(a, b) ==
    \A i \in 1..Len(NodeFlat(nodes, a)) :
        LET leaf == NodeFlat(nodes, a)[i]
            other == NodeGetItem(nodes, b, leaf.name)
        IN  /\ other.err = "ok"
            /\ leaf.value.k # "ref" => other.val = leaf.value
            /\ leaf.value.k = "ref" =>
                  (other.val.k = "ref" /\ other.val.v # leaf.value.v)

\* C24: the tree C that tree_copy returns for S is equal to S; no tree
\* object of C is one of S, so that a set on C at any name leaves S what it
\* was and a set on S leaves C what it was; and the leaves that are neither
\* trees nor References are the same objects in both.
C24_TreeCopy ==
    pc = "copied" =>
        /\ AsTree(out[1].snap) = AsTree(tree0)
        /\ Reach(nodes, out[1].id) \cap Reach(nodes, Self) = {}
        /\ ~SetOn(Self) => Snap(nodes, Self) = tree0
        /\ ~SetOn(out[1].id) => Snap(nodes, out[1].id) = out[1].snap
        /\ sets = <<>> => LeavesShared(Self, out[1].id)

\* C24 for the trees whose nested mappings are all ParameterSets
C24_NestedTrees == NoPlainDict => C24_TreeCopy

\* a set on a nested name of the copy of a space with a Range, a nested
\* tree and a Reference changed the copy alone
C24_Witness ==
    /\ pc = "copied"
    /\ sets # <<>>
    /\ sets[1] = [tree |-> out[1].id, name |-> <<"a", "y">>, err |-> "ok"]
    /\ Key("b") \in DOMAIN tree0
    /\ tree0[Key("x")].k = "range"
    /\ tree0[Key("b")].k = "ref"
    /\ Snap(nodes, out[1].id) # out[1].snap
    /\ Snap(nodes, Self) = tree0
    /\ NoPlainDict

\* the value is a Range or a Distribution, or a collection that contains one
IsOrContainsAxis(value) ==
    \/ value.k \in {"range", "dist"}
    \/ /\ value.k = "list"
       /\ \E i \in 1..Len(value.sub) : value.sub[i].k \in {"range", "dist"}

RECURSIVE HoldsAxis(_)
\* some leaf of t, found by descent, is or contains an axis
HoldsAxis(t) ==
    \E key \in DOMAIN t :
        IF t[key].k = "tree" THEN HoldsAxis(t[key].sub)
        ELSE IsOrContainsAxis(t[key])

\* C25: what tree_copy returns is a ParameterSpace if and only if some leaf
\* found by descent is a Range, a Distribution or a collection that
\* contains one, and a ParameterSet otherwise.
C25_SpaceFromContent ==
    pc = "copied" =>
        /\ out[1].cls \in {"ParameterSpace", "ParameterSet"}
        /\ out[1].cls = "ParameterSpace" <=> HoldsAxis(tree0)

\* C25 for the leaves that are axes themselves
C25_LeafAxes ==
    pc = "copied" =>
        /\ out[1].cls \in {"ParameterSpace", "ParameterSet"}
        /\ out[1].cls = "ParameterSpace" <=>
               (AxesOf(tree0, "range") \cup AxesOf(tree0, "dist") # {})

\* the copy of a space whose only axes are nested is a ParameterSpace
C25_LeafWitness ==
    /\ pc = "copied"
    /\ out[1].cls = "ParameterSpace"
    /\ AxesOf(tree0, "range") = {<<"a", "x">>, <<"a", "y">>}

\* C29: whatever part of iter_range_key, iter_inner or realize_dists has
\* been consumed, under either copy policy, and whatever the caller has set
\* on the trees yielded, the space holds at every key at every depth the
\* value it held when it was constructed, Ranges and Distributions
\* included.
C29_SourceUnchanged ==
    gen.kind # "none" =>
        /\ Snap(nodes, Self) = tree0
        /\ \A k \in 1..Len(sets) : Self \notin Reach(nodes, sets[k].tree)

\* C29 for the spaces whose nested mappings are all ParameterSets
C29_NestedTrees == NoPlainDict => C29_SourceUnchanged

\* an iteration under the reuse policy has ended after the caller had set
\* a nested leaf of a tree it was handed
C29_Witness ==
    /\ pc = "done"
    /\ ~gen.copy
    /\ Len(out) > 1
    /\ \E k \in 1..Len(sets) : sets[k].err = "ok" /\ Len(sets[k].name) = 2
    /\ AxesOf(tree0, "range") # {}
    /\ NoPlainDict
====
